---- MODULE Spec2Model ----
(***************************************************************************)
(* PantryChef recommendation pipeline: PantryChefEngine (backend/Logic.py) *)
(* and PantryChefOrchestrator.run_pantry_chef (backend/app_orchestrator.py)*)
(*                                                                         *)
(* Texts are TLA+ strings; keyword search is Python's substring test       *)
(* `kw in text`, lower-casing is str.lower() on ASCII letters.             *)
(* Safety scores are kept in tenths (0.0 -> 0, 0.5 -> 5, 1.0 -> 10);       *)
(* penalties and confidences are whole numbers for whole-minute inputs.    *)
(***************************************************************************)
EXTENDS Integers, Sequences, FiniteSets, TLC

VARIABLES
    pc,                 \* position inside run_pantry_chef
    settings,           \* the settings dict of the request
    raw_recipes,        \* list fetched from the recipe-search collaborator
    processed_recipes,  \* list returned by process_results / SafetyEnforce
    after_enforce,      \* processed_recipes as they left SafetyEnforce
    pitch,              \* what generate_recommendation_pitch answered
    result,             \* the dict returned by run_pantry_chef
    eng_recipe,         \* the recipe handed to one engine call
    eng_out,            \* what the engine computed for eng_recipe
    request,            \* ingredients, cuisine and the LLM client of the request
    ingredients_to_search,  \* the ingredients of the first search
    cuisine_used,       \* the cuisine the results are labelled with ("" is None)
    metadata_notes,     \* the notes about the fallbacks that found something
    calls,              \* the collaborator calls of Step A so far, with outcomes
    validator,          \* one call of GeminiRecipeValidator.validate_and_classify_recipe
    cache,              \* the search_cache table of PantryChefDB, the clock, the last answer
    graph               \* the GraphState of one run of the LegalMind RAG graph

\* the variables of Step A
fetch_vars == <<request, ingredients_to_search, cuisine_used, metadata_notes, calls>>

\* the variables of the components beside the pipeline
side_vars == <<validator, cache, graph>>

vars == <<pc, settings, raw_recipes, processed_recipes, after_enforce,
          pitch, result, eng_recipe, eng_out, fetch_vars, side_vars>>

----------------------------------------------------------------------------
(* Strings *)

UpperLetters == "ABCDEFGHIJKLMNOPQRSTUVWXYZ"
LowerLetters == "abcdefghijklmnopqrstuvwxyz"

\* str.lower() of one character, as a table
LowerTable ==
    [c \in {SubSeq(UpperLetters, i, i) : i \in 1..Len(UpperLetters)} |->
        LET i == CHOOSE j \in 1..Len(UpperLetters) : SubSeq(UpperLetters, j, j) = c
        IN  SubSeq(LowerLetters, i, i)]

LowerChar(c) == IF c \in DOMAIN LowerTable THEN LowerTable[c] ELSE c

RECURSIVE Lower(_)
\* str.lower()
Lower(s) ==
    IF Len(s) = 0 THEN ""
    ELSE LowerChar(SubSeq(s, 1, 1)) \o Lower(SubSeq(s, 2, Len(s)))

\* Python `k in t` for a non-empty keyword k
Contains(t, k) ==
    \E i \in 1..(Len(t) - Len(k) + 1) : SubSeq(t, i, i + Len(k) - 1) = k

\* any(k in t for k in kws)
AnyIn(kws, t) == \E j \in 1..Len(kws) : Contains(t, kws[j])

RECURSIVE JoinSpace(_)
\* ' '.join(parts)
JoinSpace(parts) ==
    IF Len(parts) = 0 THEN ""
    ELSE IF Len(parts) = 1 THEN parts[1]
    ELSE parts[1] \o " " \o JoinSpace(Tail(parts))

\* [r.lower() for r in xs]
LowerAll(xs) == [i \in 1..Len(xs) |-> Lower(xs[i])]

\* x in xs
InList(x, xs) == \E i \in 1..Len(xs) : xs[i] = x

RECURSIVE SelectNonEmpty(_)
\* keeps the non-empty strings of a list, in order
SelectNonEmpty(xs) ==
    IF Len(xs) = 0 THEN <<>>
    ELSE IF Head(xs) = "" THEN SelectNonEmpty(Tail(xs))
    ELSE <<Head(xs)>> \o SelectNonEmpty(Tail(xs))

----------------------------------------------------------------------------
(* Keyword tables of the engine *)

MEAT_KEYWORDS ==
    <<"meat", "beef", "pork", "lamb", "mutton", "veal", "venison", "chicken",
      "poultry", "turkey", "duck", "goose", "fish", "seafood", "shrimp", "prawn",
      "crab", "lobster", "mussel", "clam", "oyster", "squid", "octopus", "bacon",
      "ham", "sausage", "pepperoni", "salami", "prosciutto", "steak", "ribs",
      "lard", "tallow", "gelatin", "anchovy", "sardine", "tuna", "salmon", "cod">>

LAND_MEAT ==
    <<"chicken", "turkey", "beef", "steak", "pork", "lamb", "mutton", "venison", "veal",
      "duck", "goose", "bacon", "ham", "sausage", "pepperoni", "salami", "chorizo",
      "meatball", "lard", "tallow", "gelatin">>

SEA_MEAT ==
    <<"fish", "salmon", "tuna", "cod", "tilapia", "shrimp", "prawn", "crab", "lobster",
      "mussel", "clam", "oyster", "squid", "calamari", "octopus", "anchovy", "sardine",
      "fish sauce", "oyster sauce">>

DAIRY_EGGS == <<"egg", "milk", "cream", "butter", "cheese", "yogurt", "whey", "casein">>

\* ALLERGY_MAP.get(key, [])
ALLERGY_MAP(key) ==
    CASE key = "dairy"  -> <<"cheese", "milk", "butter", "cream", "yogurt", "dairy">>
      [] key = "gluten" -> <<"wheat", "flour", "pasta", "bread", "gluten">>
      [] key = "eggs"   -> <<"egg", "eggs", "mayonnaise">>
      [] key = "nuts"   -> <<"nuts", "almond", "peanut", "cashew">>
      [] OTHER          -> <<>>

\* SAFE_WORDS.get(key, [])
SAFE_WORDS(key) ==
    CASE key = "dairy"  -> <<"vegan", "plant-based", "non-dairy", "almond", "coconut", "oat">>
      [] key = "gluten" -> <<"gluten-free", "gf">>
      [] key = "eggs"   -> <<"egg-free", "vegan", "plant-based">>
      [] key = "nuts"   -> <<"nut-free">>
      [] OTHER          -> <<>>

----------------------------------------------------------------------------
(* SafetyGate: PantryChefEngine._apply_safety_check *)

\* the lower-cased name of every ingredient that has one
ingredient_names(recipe) ==
    SelectNonEmpty([i \in 1..Len(recipe.extendedIngredients) |->
                        Lower(recipe.extendedIngredients[i].name)])

\* the dict returned for a diet violation (passed False, safety_score 0.0)
DietReject(why) ==
    [passed |-> FALSE, has_score |-> TRUE, safety_score |-> 0,
     requires_ai_validation |-> FALSE, reason |-> why, kw |-> ""]

\* the dict returned when nothing was found (passed True, safety_score 1.0)
SafeVerdict ==
    [passed |-> TRUE, has_score |-> TRUE, safety_score |-> 10,
     requires_ai_validation |-> FALSE, reason |-> "safe", kw |-> ""]

\* SoftVerdict with the score 0.2 that the engine's self-test expects of a
\* flagged recipe: the enforcer's 0.5 floor then drops what the gate flagged
SoftVerdictLowScore(k) ==
    [passed |-> TRUE, has_score |-> TRUE, safety_score |-> 2,
     requires_ai_validation |-> TRUE, reason |-> "safe-word", kw |-> k]

\* the dict returned for a keyword found together with a safe word
SoftVerdict(k) ==
    [passed |-> TRUE, has_score |-> TRUE, safety_score |-> 5,
     requires_ai_validation |-> TRUE, reason |-> "safe-word", kw |-> k]

\* the dict returned for a keyword found without a safe word: it carries
\* neither 'safety_score' nor 'requires_ai_validation'
HardVerdict(k) ==
    [passed |-> FALSE, has_score |-> FALSE, safety_score |-> 0,
     requires_ai_validation |-> FALSE, reason |-> "hard cutoff", kw |-> k]

\* DietCheck without its vegetarian branch: 'vegetarian' is not recognised
\* and only the vegan and pescatarian branches reject
DietCheckNoVegetarian(recipe, s) ==
    LET dietary_lower   == LowerAll(s.dietary_requirements)
        is_vegan        == InList("vegan", dietary_lower)
        is_pescatarian  == InList("pescatarian", dietary_lower)
        ingredients_text == JoinSpace(ingredient_names(recipe))
        all_safe_words  == SAFE_WORDS("dairy") \o SAFE_WORDS("eggs")
    IN  IF is_vegan THEN
            IF AnyIn(LAND_MEAT, ingredients_text) THEN <<DietReject("land meat")>>
            ELSE IF AnyIn(SEA_MEAT, ingredients_text) THEN <<DietReject("seafood")>>
            ELSE IF AnyIn(DAIRY_EGGS, ingredients_text)
                    /\ ~AnyIn(all_safe_words, ingredients_text)
                 THEN <<DietReject("dairy/eggs")>>
            ELSE <<>>
        ELSE IF is_pescatarian THEN
            IF AnyIn(LAND_MEAT, ingredients_text) THEN <<DietReject("land meat")>>
            ELSE <<>>
        ELSE <<>>

\* the diet part: <<the rejection dict>>, or <<>> when the diet check lets the
\* recipe through to the intolerance part
DietCheck(recipe, s) ==
    LET dietary_lower   == LowerAll(s.dietary_requirements)
        is_vegetarian   == InList("vegetarian", dietary_lower)
        is_vegan        == InList("vegan", dietary_lower)
        is_pescatarian  == InList("pescatarian", dietary_lower)
        ingredients_text == JoinSpace(ingredient_names(recipe))
        all_safe_words  == SAFE_WORDS("dairy") \o SAFE_WORDS("eggs")
    IN  IF is_vegetarian THEN
            IF AnyIn(LAND_MEAT, ingredients_text) THEN <<DietReject("land meat")>>
            ELSE IF AnyIn(SEA_MEAT, ingredients_text) THEN <<DietReject("seafood")>>
            ELSE <<>>
        ELSE IF is_vegan THEN
            IF AnyIn(LAND_MEAT, ingredients_text) THEN <<DietReject("land meat")>>
            ELSE IF AnyIn(SEA_MEAT, ingredients_text) THEN <<DietReject("seafood")>>
            ELSE IF AnyIn(DAIRY_EGGS, ingredients_text)
                    /\ ~AnyIn(all_safe_words, ingredients_text)
                 THEN <<DietReject("dairy/eggs")>>
            ELSE <<>>
        ELSE IF is_pescatarian THEN
            IF AnyIn(LAND_MEAT, ingredients_text) THEN <<DietReject("land meat")>>
            ELSE <<>>
        ELSE <<>>

\* the text the intolerance keywords are searched in
recipe_text(recipe) ==
    Lower(recipe.title) \o " " \o JoinSpace(ingredient_names(recipe))

RECURSIVE IntoleranceScan(_, _, _, _)
\* the two nested loops over intolerances (index i) and their keywords
\* (index j): the first keyword found in the text decides and returns
IntoleranceScan(text, intolerances, i, j) ==
    IF i > Len(intolerances) THEN SafeVerdict
    ELSE LET intol_key == Lower(intolerances[i])
             keywords  == ALLERGY_MAP(intol_key)
             safe_words == SAFE_WORDS(intol_key)
         IN  IF j > Len(keywords) THEN IntoleranceScan(text, intolerances, i + 1, 1)
             ELSE IF Contains(text, keywords[j]) THEN
                      IF AnyIn(safe_words, text) THEN SoftVerdict(keywords[j])
                      ELSE HardVerdict(keywords[j])
             ELSE IntoleranceScan(text, intolerances, i, j + 1)

apply_safety_check(recipe, s) ==
    LET diet == DietCheck(recipe, s)
    IN  IF Len(diet) > 0 THEN diet[1]
        ELSE IF Len(s.intolerances) = 0 THEN SafeVerdict
        ELSE IntoleranceScan(recipe_text(recipe), s.intolerances, 1, 1)

----------------------------------------------------------------------------
(* ProgressiveFilterChain: the sub-checks and the soft filter *)

\* DIFFICULTY_ORDER.get(level, 3)
DIFFICULTY_ORDER(level) ==
    CASE level = "easy" -> 1 [] level = "medium" -> 2 [] level = "hard" -> 3 [] OTHER -> 3

\* recipe.get('readyInMinutes', 0)
ReadyOrZero(recipe) == IF recipe.hasReadyTime THEN recipe.readyInMinutes ELSE 0

\* _assess_difficulty with the bounds of the tiers taken as strict
assess_difficulty_strict_bounds(recipe, max_difficulty) ==
    LET total_ingredients == recipe.usedIngredientCount + recipe.missedIngredientCount
        ready_time == ReadyOrZero(recipe)
        base  == IF total_ingredients < 5 THEN "easy"
                 ELSE IF total_ingredients < 10 THEN "medium"
                 ELSE "hard"
        level == IF ready_time > 60
                 THEN (IF base = "easy" THEN "medium"
                       ELSE IF base = "medium" THEN "hard" ELSE base)
                 ELSE base
    IN  [passed |-> DIFFICULTY_ORDER(level) <= DIFFICULTY_ORDER(max_difficulty),
         level |-> level, max_allowed |-> max_difficulty]

assess_difficulty(recipe, max_difficulty) ==
    LET total_ingredients == recipe.usedIngredientCount + recipe.missedIngredientCount
        ready_time == ReadyOrZero(recipe)
        base  == IF total_ingredients <= 5 THEN "easy"
                 ELSE IF total_ingredients <= 10 THEN "medium"
                 ELSE "hard"
        level == IF ready_time > 60
                 THEN (IF base = "easy" THEN "medium"
                       ELSE IF base = "medium" THEN "hard" ELSE base)
                 ELSE base
    IN  [passed |-> DIFFICULTY_ORDER(level) <= DIFFICULTY_ORDER(max_difficulty),
         level |-> level, max_allowed |-> max_difficulty]

\* 'estimate' is the string 'unknown' when the recipe has no readyInMinutes
check_time_limit(recipe, max_time) ==
    [passed |-> IF recipe.hasReadyTime THEN recipe.readyInMinutes <= max_time ELSE TRUE,
     known |-> recipe.hasReadyTime,
     estimate |-> ReadyOrZero(recipe),
     max_allowed |-> max_time]

check_missing_limit(missed_count, max_missing) ==
    [passed |-> missed_count <= max_missing,
     count |-> missed_count, max_allowed |-> max_missing]

RECURSIVE ReplaceChar(_, _, _)
\* str.replace(a, b) for one-character a
ReplaceChar(s, a, b) ==
    IF Len(s) = 0 THEN ""
    ELSE (IF SubSeq(s, 1, 1) = a THEN b ELSE SubSeq(s, 1, 1))
         \o ReplaceChar(SubSeq(s, 2, Len(s)), a, b)

diet_meat_keywords == <<"chicken", "beef", "pork", "fish", "meat", "turkey", "lamb",
                        "bacon", "sausage", "ham", "seafood", "shrimp", "salmon">>
diet_dairy_keywords == <<"milk", "cheese", "butter", "cream", "yogurt", "sour cream",
                         "heavy cream", "whipping cream">>
diet_egg_keywords == <<"egg", "eggs">>
diet_gluten_keywords == <<"flour", "wheat", "bread", "pasta", "noodles">>

RECURSIVE DietaryLoop(_, _, _, _)
\* the loop over dietary_requirements: st = [passed, reasons] after the
\* requirements before index i
DietaryLoop(reqs, i, f, st) ==
    IF i > Len(reqs) THEN st
    ELSE LET req_lower == ReplaceChar(ReplaceChar(Lower(reqs[i]), "-", "_"), " ", "_")
             next ==
               CASE req_lower = "vegetarian" ->
                      IF f.has_meat
                      THEN [passed |-> FALSE, reasons |-> Append(st.reasons, "contains meat")]
                      ELSE [st EXCEPT !.passed = TRUE]
                 [] req_lower = "vegan" ->
                      IF f.has_meat \/ f.has_dairy \/ f.has_eggs
                      THEN [passed |-> FALSE,
                            reasons |-> Append(st.reasons, "contains animal products")]
                      ELSE st
                 [] req_lower = "gluten_free" ->
                      IF f.has_gluten
                      THEN (IF ~f.api_gluten_free
                            THEN [passed |-> FALSE,
                                  reasons |-> Append(st.reasons, "contains gluten")]
                            ELSE [st EXCEPT !.reasons = Append(st.reasons,
                                    "may contain gluten (API says gluten-free but keywords found)")])
                      ELSE st
                 [] req_lower = "dairy_free" ->
                      IF f.has_dairy
                      THEN (IF ~f.api_dairy_free
                            THEN [passed |-> FALSE,
                                  reasons |-> Append(st.reasons, "contains dairy")]
                            ELSE [st EXCEPT !.reasons = Append(st.reasons,
                                    "may contain dairy (API says dairy-free but keywords found)")])
                      ELSE st
                 [] OTHER -> st
         IN  DietaryLoop(reqs, i + 1, f, next)

RECURSIVE JoinWith(_, _)
\* sep.join(parts)
JoinWith(parts, sep) ==
    IF Len(parts) = 0 THEN ""
    ELSE IF Len(parts) = 1 THEN parts[1]
    ELSE parts[1] \o sep \o JoinWith(Tail(parts), sep)

\* called by the soft filter with intolerances = [], so only the
\* requirement loop is live
check_dietary_requirements(recipe, dietary_requirements) ==
    IF Len(dietary_requirements) = 0
    THEN [passed |-> TRUE, reason |-> "No dietary restrictions"]
    ELSE LET ingredients_text ==
                 JoinSpace([i \in 1..Len(recipe.extendedIngredients) |->
                               Lower(recipe.extendedIngredients[i].name)])
             f == [has_meat   |-> AnyIn(diet_meat_keywords, ingredients_text),
                   has_dairy  |-> AnyIn(diet_dairy_keywords, ingredients_text),
                   has_eggs   |-> AnyIn(diet_egg_keywords, ingredients_text),
                   has_gluten |-> AnyIn(diet_gluten_keywords, ingredients_text),
                   api_dairy_free  |-> recipe.dietary_info.dairyFree,
                   api_gluten_free |-> recipe.dietary_info.glutenFree]
             st == DietaryLoop(dietary_requirements, 1, f,
                               [passed |-> TRUE, reasons |-> <<>>])
         IN  [passed |-> st.passed,
              reason |-> IF Len(st.reasons) > 0 THEN JoinWith(st.reasons, "; ")
                         ELSE "meets requirements"]

\* TimePenalty with the overage subtracted the wrong way round
TimePenaltyReversed(time_estimate, max_time) ==
    LET overage == max_time - time_estimate
    IN  IF overage * 2 < 30 THEN overage * 2 ELSE 30

\* min(overage * 2.0, 30.0)
TimePenalty(time_estimate, max_time) ==
    LET overage == time_estimate - max_time
    IN  IF overage * 2 < 30 THEN overage * 2 ELSE 30

\* the flat penalty of the branch for counts that are not numbers
MissingPenaltyFlat(missing_count, max_allowed) == 10

\* excess * 5.0
MissingPenalty(missing_count, max_allowed) == (missing_count - max_allowed) * 5

apply_soft_filters_with_penalties(recipe, s) ==
    LET difficulty_check == assess_difficulty(recipe, s.max_difficulty)
        time_check    == check_time_limit(recipe, s.max_time_minutes)
        missing_check == check_missing_limit(recipe.missedIngredientCount,
                                             s.max_missing_ingredients)
        dietary_check == check_dietary_requirements(recipe, s.dietary_requirements)
        p1 == IF ~difficulty_check.passed THEN 15 ELSE 0
        v1 == IF ~difficulty_check.passed
              THEN <<"difficulty: " \o difficulty_check.level \o " > "
                       \o difficulty_check.max_allowed>>
              ELSE <<>>
        p2 == IF ~time_check.passed
              THEN TimePenalty(time_check.estimate, time_check.max_allowed) ELSE 0
        v2 == IF ~time_check.passed
              THEN <<"time: " \o ToString(time_check.estimate) \o " min > "
                       \o ToString(time_check.max_allowed) \o " min">>
              ELSE <<>>
        p3 == IF ~missing_check.passed
              THEN MissingPenalty(missing_check.count, missing_check.max_allowed) ELSE 0
        v3 == IF ~missing_check.passed
              THEN <<"missing_ingredients: " \o ToString(missing_check.count) \o " > "
                       \o ToString(missing_check.max_allowed)>>
              ELSE <<>>
        p4 == IF ~dietary_check.passed THEN 10 ELSE 0
        v4 == IF ~dietary_check.passed
              THEN <<"dietary: " \o dietary_check.reason>> ELSE <<>>
    IN  [passed |-> TRUE,
         filter_results |-> [difficulty |-> difficulty_check,
                             time |-> time_check,
                             missing_ingredients |-> missing_check,
                             dietary |-> dietary_check],
         penalty_score |-> p1 + p2 + p3 + p4,
         violations |-> v1 \o v2 \o v3 \o v4]

----------------------------------------------------------------------------
(* IngredientMatcher: the counts of a candidate returned by                *)
(* SpoonacularClient.search_by_ingredients                                 *)

\* any(user_ing in ing_name or ing_name in user_ing
\*     for user_ing in user_ingredients_lower)
PantryMatch(ing_name, user_ingredients_lower) ==
    \E i \in 1..Len(user_ingredients_lower) :
        \/ Contains(ing_name, user_ingredients_lower[i])
        \/ Contains(user_ingredients_lower[i], ing_name)

\* the counts of the merge loop: those of the first search unless both are
\* 0, and only then the manifest entries that match the pantry and the rest
match_counts(used_count, missed_count, extended_ingredients, user_ingredients) ==
    LET user_ingredients_lower == LowerAll(user_ingredients)
        matched == {i \in 1..Len(extended_ingredients) :
                       PantryMatch(Lower(extended_ingredients[i].name),
                                   user_ingredients_lower)}
    IN  IF used_count = 0 /\ missed_count = 0
        THEN [used |-> Cardinality(matched),
              missed |-> Len(extended_ingredients) - Cardinality(matched)]
        ELSE [used |-> used_count, missed |-> missed_count]

\* the candidate appended to merged_recipes for one recipe of the first
\* search: a stub with an empty manifest when informationBulk did not return
\* it, the enriched recipe with the counts of match_counts otherwise
merge_candidate(recipe, in_enriched_map, enriched, user_ingredients) ==
    IF ~in_enriched_map
    THEN [recipe EXCEPT !.extendedIngredients = <<>>]
    ELSE LET counts == match_counts(recipe.usedIngredientCount,
                                    recipe.missedIngredientCount,
                                    enriched.extendedIngredients, user_ingredients)
         IN  [enriched EXCEPT !.usedIngredientCount = counts.used,
                              !.missedIngredientCount = counts.missed]

----------------------------------------------------------------------------
(* ScoringEngine: the smart score, in tenths of a point *)

\* USER_PROFILES[name]['weights'], in tenths
USER_PROFILES(name) ==
    CASE name = "minimal_shopper" -> [used |-> 3, missing |-> 7]
      [] name = "pantry_cleaner"  -> [used |-> 7, missing |-> 3]
      [] OTHER                    -> [used |-> 5, missing |-> 5]

\* self.profile: USER_PROFILES.get(user_settings.get('user_profile',
\* 'balanced'), USER_PROFILES['balanced'])
ProfileOf(s) ==
    IF s.has_user_profile THEN USER_PROFILES(s.user_profile)
    ELSE USER_PROFILES("balanced")

\* round(n / d) for n >= 0, d > 0, halves to the even neighbour
RoundDiv(n, d) ==
    LET q == n \div d
        r == n % d
    IN  IF 2 * r < d THEN q
        ELSE IF 2 * r > d THEN q + 1
        ELSE IF q % 2 = 0 THEN q ELSE q + 1

\* _calculate_smart_score with the missing component computed from
\* missed_percent instead of 100 - missed_percent
smart_score_missing_flipped(used_count, missed_count, weights) ==
    LET total_ingredients == used_count + missed_count
    IN  IF total_ingredients = 0 THEN 0
        ELSE RoundDiv(weights.used * 100 * used_count
                        + weights.missing * 100 * missed_count,
                      total_ingredients)

\* round(weights['used'] * used_percent
\*       + weights['missing'] * (100 - missed_percent), 1), in tenths
smart_score(used_count, missed_count, weights) ==
    LET total_ingredients == used_count + missed_count
    IN  IF total_ingredients = 0 THEN 0
        ELSE RoundDiv(weights.used * 100 * used_count
                        + weights.missing
                            * (100 * total_ingredients - 100 * missed_count),
                      total_ingredients)

\* _calculate_smart_score(recipe)['smart_score']
calculate_smart_score(recipe, s) ==
    smart_score(recipe.usedIngredientCount, recipe.missedIngredientCount, ProfileOf(s))

----------------------------------------------------------------------------
(* ReasoningEngine: the displayed confidence *)

BaseConfidence == 75
MaxConfidence == 95
MinConfidence == 50

\* settings.get('max_time', settings.get('max_time_minutes', 120))
ReasoningMaxTime(s) == IF s.has_max_time THEN s.max_time ELSE s.max_time_minutes

\* apply_reasoning without the min(95, ...) cap
apply_reasoning_uncapped(recipe, s, filter_result) ==
    LET time_known == recipe.hasReadyTime /\ recipe.readyInMinutes # 0
        time_estimate == recipe.readyInMinutes
        difficulty == filter_result.filter_results.difficulty.level
        missed_count == recipe.missedIngredientCount
        max_time == ReasoningMaxTime(s)
        b1 == IF missed_count <= 1 THEN 10 ELSE 0
        b2 == IF difficulty = "easy" THEN 5 ELSE 0
        b3 == IF time_known /\ max_time # 0 /\ time_estimate <= max_time THEN 5 ELSE 0
        b4 == IF s.mood = "tired" /\ time_known /\ time_estimate <= 20 THEN 15 ELSE 0
        b5 == IF missed_count <= 1 /\ difficulty = "easy" /\ time_known
                 /\ time_estimate <= 20 THEN 5 ELSE 0
    IN  BaseConfidence + b1 + b2 + b3 + b4 + b5

\* `confidence` of _apply_reasoning: base, bonuses, cap
apply_reasoning(recipe, s, filter_result) ==
    LET time_known == recipe.hasReadyTime /\ recipe.readyInMinutes # 0
        time_estimate == recipe.readyInMinutes
        difficulty == filter_result.filter_results.difficulty.level
        missed_count == recipe.missedIngredientCount
        max_time == ReasoningMaxTime(s)
        b1 == IF missed_count <= 1 THEN 10 ELSE 0
        b2 == IF difficulty = "easy" THEN 5 ELSE 0
        b3 == IF time_known /\ max_time # 0 /\ time_estimate <= max_time THEN 5 ELSE 0
        b4 == IF s.mood = "tired" /\ time_known /\ time_estimate <= 20 THEN 15 ELSE 0
        b5 == IF missed_count <= 1 /\ difficulty = "easy" /\ time_known
                 /\ time_estimate <= 20 THEN 5 ELSE 0
        confidence == BaseConfidence + b1 + b2 + b3 + b4 + b5
    IN  IF confidence < MaxConfidence THEN confidence ELSE MaxConfidence

\* max(50, base_confidence - penalty_score)
apply_reasoning_with_penalties(recipe, s, filter_result) ==
    LET base_confidence == apply_reasoning(recipe, s, filter_result)
        penalty_score == filter_result.penalty_score
        adjusted == base_confidence - penalty_score
    IN  [confidence |-> IF adjusted > MinConfidence THEN adjusted ELSE MinConfidence,
         penalty_applied |-> penalty_score,
         violations |-> filter_result.violations]

----------------------------------------------------------------------------
(* ReasoningEngine: the internal ranking score. A score is the fraction    *)
(* n / d of two integers, so that the blend is computed exactly.           *)

\* MOOD_WEIGHTS[mood] for the three moods of the table, in tenths
MOOD_WEIGHTS(mood) ==
    CASE mood = "tired"     -> [time |-> 5, effort |-> 7, skill |-> 3, shopping |-> 8]
      [] mood = "casual"    -> [time |-> 5, effort |-> 5, skill |-> 5, shopping |-> 5]
      [] mood = "energetic" -> [time |-> 3, effort |-> 4, skill |-> 7, shopping |-> 4]

\* self.mood_weights with an unknown mood given the weights of energetic
mood_weights_unknown_energetic(s) ==
    IF s.mood \in {"tired", "casual", "energetic"}
    THEN MOOD_WEIGHTS(s.mood) ELSE MOOD_WEIGHTS("energetic")

\* self.mood_weights: MOOD_WEIGHTS.get(self.mood, MOOD_WEIGHTS['casual'])
mood_weights(s) ==
    IF s.mood \in {"tired", "casual", "energetic"}
    THEN MOOD_WEIGHTS(s.mood) ELSE MOOD_WEIGHTS("casual")

\* DIFFICULTY_SKILL_MAP.get(difficulty, 50)
DIFFICULTY_SKILL_MAP(difficulty) ==
    CASE difficulty = "easy"   -> 30
      [] difficulty = "medium" -> 60
      [] difficulty = "hard"   -> 90
      [] OTHER                 -> 50

\* the larger of two numbers
Larger(a, b) == IF a > b THEN a ELSE b

\* time_score: max(0.1, 1 - time_estimate / max_time) when both are set,
\* else 0.5
time_score(recipe, s) ==
    LET time_known == recipe.hasReadyTime /\ recipe.readyInMinutes # 0
        time_estimate == recipe.readyInMinutes
        max_time == ReasoningMaxTime(s)
    IN  IF time_known /\ max_time # 0
        THEN [n |-> Larger(max_time, 10 * (max_time - time_estimate)),
              d |-> 10 * max_time]
        ELSE [n |-> 1, d |-> 2]

\* skill_score: 1.0 when the user's skill reaches the required one, else
\* max(0.2, 1 - (required_skill - skill_level) / 100)
skill_score(s, difficulty) ==
    LET required_skill == DIFFICULTY_SKILL_MAP(difficulty)
    IN  IF s.skill_level >= required_skill
        THEN [n |-> 100, d |-> 100]
        ELSE [n |-> Larger(20, 100 - (required_skill - s.skill_level)), d |-> 100]

\* shopping_score: 1 - missed_count / total_ingredients, 0.5 without
\* ingredients
shopping_score(recipe) ==
    LET missed_count == recipe.missedIngredientCount
        total_ingredients == recipe.usedIngredientCount + missed_count
    IN  IF total_ingredients > 0
        THEN [n |-> total_ingredients - missed_count, d |-> total_ingredients]
        ELSE [n |-> 1, d |-> 2]

\* adjusted_time_score: time_score, times 2 when self.mood == 'tired'
adjusted_time_score(recipe, s) ==
    LET t == time_score(recipe, s)
    IN  IF s.mood = "tired" THEN [n |-> 2 * t.n, d |-> t.d] ELSE t

\* (smart / 100) * 0.4 + time * w.time * 0.25 + skill * w.skill * 0.2
\*   + shopping * w.shopping * 0.15
\* for the smart score in tenths, the weights in tenths and three
\* fractions, as a fraction of denominator 10000 * time.d * shopping.d
\* (the denominator of skill is 100)
Blend(smart, w, time, skill, shopping) ==
    [n |-> 4 * smart * time.d * shopping.d
           + 250 * w.time * time.n * shopping.d
           + 2 * w.skill * skill.n * time.d * shopping.d
           + 150 * w.shopping * shopping.n * time.d,
     d |-> 10000 * time.d * shopping.d]

\* final_internal_score of _apply_reasoning(recipe, smart_score,
\* filter_result)
final_internal_score(recipe, s, smart, filter_result) ==
    LET difficulty == filter_result.filter_results.difficulty.level
    IN  Blend(smart, mood_weights(s), adjusted_time_score(recipe, s),
              skill_score(s, difficulty), shopping_score(recipe))

\* the scores of 'internal_debug', before they are rounded for display
internal_debug(recipe, s, smart, filter_result) ==
    [internal_score |-> final_internal_score(recipe, s, smart, filter_result),
     time_score |-> time_score(recipe, s),
     skill_score |-> skill_score(s, filter_result.filter_results.difficulty.level),
     shopping_score |-> shopping_score(recipe),
     weights_used |-> mood_weights(s)]

----------------------------------------------------------------------------
(* ResultAssembler *)

\* any(tag in v for v in violations_list)
AnyViolation(violations_list, tag) ==
    \E i \in 1..Len(violations_list) : Contains(violations_list[i], tag)

\* _build_metadata_dict looking for the tag 'missing:' in the violations
build_metadata_dict_missing_tag(reasoning_data, filter_result, safety_check) ==
    LET violations_list == reasoning_data.violations
    IN  [filter_results |-> filter_result.filter_results,
         safety_check |-> safety_check,
         penalty_applied |-> reasoning_data.penalty_applied,
         penalty_score |-> filter_result.penalty_score,
         violations |-> violations_list,
         violation_flags |->
            [has_time_violation |-> AnyViolation(violations_list, "time:"),
             has_missing_violation |-> AnyViolation(violations_list, "missing:"),
             has_difficulty_violation |-> AnyViolation(violations_list, "difficulty:"),
             has_dietary_violation |-> AnyViolation(violations_list, "dietary:"),
             has_nutritional_violation |-> FALSE]]

build_metadata_dict(reasoning_data, filter_result, safety_check) ==
    LET violations_list == reasoning_data.violations
    IN  [filter_results |-> filter_result.filter_results,
         safety_check |-> safety_check,
         penalty_applied |-> reasoning_data.penalty_applied,
         penalty_score |-> filter_result.penalty_score,
         violations |-> violations_list,
         violation_flags |->
            [has_time_violation |-> AnyViolation(violations_list, "time:"),
             has_missing_violation |-> AnyViolation(violations_list, "missing_ingredients:"),
             has_difficulty_violation |-> AnyViolation(violations_list, "difficulty:"),
             has_dietary_violation |-> AnyViolation(violations_list, "dietary:"),
             has_nutritional_violation |-> FALSE]]

\* the assembler with the last entry of the ingredient manifest left out
clean_data_manifest_cut(recipe, reasoning_data, filter_result, safety_check) ==
    [id |-> recipe.id,
     title |-> recipe.title,
     confidence |-> reasoning_data.confidence,
     match_confidence |-> reasoning_data.confidence,
     time |-> ReadyOrZero(recipe),
     extendedIngredients |->
        SubSeq(recipe.extendedIngredients, 1, Len(recipe.extendedIngredients) - 1),
     nutrition |-> recipe.nutrition,
     used_ingredients |-> recipe.usedIngredientCount,
     missing_ingredients |-> recipe.missedIngredientCount,
     difficulty |-> filter_result.filter_results.difficulty.level,
     metadata |-> build_metadata_dict(reasoning_data, filter_result, safety_check)]

clean_data(recipe, reasoning_data, filter_result, safety_check) ==
    [id |-> recipe.id,
     title |-> recipe.title,
     confidence |-> reasoning_data.confidence,
     match_confidence |-> reasoning_data.confidence,
     time |-> ReadyOrZero(recipe),
     extendedIngredients |-> recipe.extendedIngredients,
     nutrition |-> recipe.nutrition,
     used_ingredients |-> recipe.usedIngredientCount,
     missing_ingredients |-> recipe.missedIngredientCount,
     difficulty |-> filter_result.filter_results.difficulty.level,
     metadata |-> build_metadata_dict(reasoning_data, filter_result, safety_check)]

----------------------------------------------------------------------------
(* PantryChefEngine.process_results *)

\* the text the vegetarian "hard executioner" searches: title, summary and
\* every string of every ingredient (its name is added twice), lower-cased
ExecutionerText(recipe) ==
    LET names == [i \in 1..Len(recipe.extendedIngredients) |->
                     recipe.extendedIngredients[i].name]
        twice == SelectNonEmpty(
                   [k \in 1..(2 * Len(names)) |-> names[(k + 1) \div 2]])
    IN  Lower(JoinSpace(<<recipe.title, recipe.summary>> \o twice))

\* the vegetarian branch of the loop body: TRUE when the recipe is discarded
HardExecutioner(recipe, s) ==
    /\ InList("vegetarian", LowerAll(s.dietary_requirements))
    /\ AnyIn(MEAT_KEYWORDS, ExecutionerText(recipe))

\* the rest of the loop body for a recipe that passed the safety check
Recommend(recipe, s, safety_check) ==
    LET filter_result == apply_soft_filters_with_penalties(recipe, s)
        reasoning_data == apply_reasoning_with_penalties(recipe, s, filter_result)
    IN  clean_data(recipe, reasoning_data, filter_result, safety_check)

\* the loop body without the safety gate: every recipe the vegetarian scan
\* lets through is recommended and recorded as safe
ProcessOneUngated(recipe, s) ==
    IF HardExecutioner(recipe, s) THEN <<>>
    ELSE <<Recommend(recipe, s, SafeVerdict)>>

\* the loop body with the time limit as a hard filter: a recipe over the
\* user's max time is discarded
ProcessOneHardTime(recipe, s) ==
    IF HardExecutioner(recipe, s) THEN <<>>
    ELSE LET safety_check == apply_safety_check(recipe, s)
         IN  IF ~safety_check.passed THEN <<>>
             ELSE IF ~check_time_limit(recipe, s.max_time_minutes).passed THEN <<>>
             ELSE <<Recommend(recipe, s, safety_check)>>

\* the loop body: <<recommendation>>, or <<>> on either `continue`
ProcessOne(recipe, s) ==
    IF HardExecutioner(recipe, s) THEN <<>>
    ELSE LET safety_check == apply_safety_check(recipe, s)
         IN  IF ~safety_check.passed THEN <<>>
             ELSE <<Recommend(recipe, s, safety_check)>>

RECURSIVE ProcessLoop(_, _)
ProcessLoop(raw, s) ==
    IF Len(raw) = 0 THEN <<>>
    ELSE ProcessOne(Head(raw), s) \o ProcessLoop(Tail(raw), s)

RECURSIVE InsertDesc(_, _)
\* puts r after every element whose match_confidence is >= its own
InsertDesc(sorted, r) ==
    IF Len(sorted) = 0 THEN <<r>>
    ELSE IF Head(sorted).match_confidence >= r.match_confidence
         THEN <<Head(sorted)>> \o InsertDesc(Tail(sorted), r)
         ELSE <<r>> \o sorted

\* the list left in the order of the loop, not sorted
SortKeepOrder(acc, xs) == acc \o xs

RECURSIVE SortDesc(_, _)
\* sorted(xs, key=match_confidence, reverse=True): stable, equal keys keep
\* their order
SortDesc(acc, xs) ==
    IF Len(xs) = 0 THEN acc
    ELSE SortDesc(InsertDesc(acc, Head(xs)), Tail(xs))

process_results(raw, s) == SortDesc(<<>>, ProcessLoop(raw, s))

\* settings['max_missing_ingredients'] raises KeyError for the first recipe
\* that reaches the soft filter when the key is absent
ProcessRaises(raw, s) ==
    /\ ~s.has_max_missing
    /\ \E i \in 1..Len(raw) :
          /\ ~HardExecutioner(raw[i], s)
          /\ apply_safety_check(raw[i], s).passed

----------------------------------------------------------------------------
(* Orchestrator: SafetyEnforce and the LLM rejection pass *)

SafetyFloor == 5

\* safety_check.get('safety_score', 1.0)
SafetyScoreOf(safety_check) ==
    IF safety_check.has_score THEN safety_check.safety_score ELSE 10

\* the enforcer's test on one processed recipe (it has no top-level
\* 'passed' key, so recipe.get('passed', True) is True)
EnforcerKeeps(recipe) ==
    /\ recipe.metadata.safety_check.passed
    /\ ~(SafetyScoreOf(recipe.metadata.safety_check) < SafetyFloor)

RECURSIVE SelectKept(_)
SelectKept(recipes) ==
    IF Len(recipes) = 0 THEN <<>>
    ELSE IF EnforcerKeeps(Head(recipes))
         THEN <<Head(recipes)>> \o SelectKept(Tail(recipes))
         ELSE SelectKept(Tail(recipes))

SafetyEnforce(recipes) == SelectKept(recipes)

\* xs[:3] taken as the whole list
Top3KeepsAll(xs) == xs

\* xs[:3]
Top3(xs) == SubSeq(xs, 1, IF Len(xs) < 3 THEN Len(xs) ELSE 3)

\* str.find: 0-based index of the first occurrence, -1 when absent
Find(t, k) ==
    IF Contains(t, k)
    THEN (CHOOSE i \in 1..(Len(t) - Len(k) + 1) :
             /\ SubSeq(t, i, i + Len(k) - 1) = k
             /\ \A j \in 1..(i - 1) : SubSeq(t, j, j + Len(k) - 1) # k) - 1
    ELSE -1

\* t[a:b] for 0 <= a <= b <= len(t)
Slice(t, a, b) == SubSeq(t, a + 1, b)

IsSpace(c) == c \in {" ", "\n", "\t", "\r"}

RECURSIVE LStrip(_)
LStrip(s) ==
    IF Len(s) > 0 /\ IsSpace(SubSeq(s, 1, 1)) THEN LStrip(SubSeq(s, 2, Len(s))) ELSE s

RECURSIVE RStrip(_)
RStrip(s) ==
    IF Len(s) > 0 /\ IsSpace(SubSeq(s, Len(s), Len(s)))
    THEN RStrip(SubSeq(s, 1, Len(s) - 1)) ELSE s

\* str.strip()
Strip(s) == LStrip(RStrip(s))

RECURSIVE SplitLines(_)
\* pitch.split('\n')
SplitLines(s) ==
    LET i == Find(s, "\n")
    IN  IF i = -1 THEN <<s>>
        ELSE <<Slice(s, 0, i)>> \o SplitLines(SubSeq(s, i + 2, Len(s)))

\* the window test: 'rejected' within 100 characters of the first
\* occurrence of the title
RejectedNearTitle(pitch_lower, title) ==
    LET title_lower == Lower(title)
        title_index == Find(pitch_lower, title_lower)
        window_start == IF title_index - 100 > 0 THEN title_index - 100 ELSE 0
        stop == title_index + Len(title_lower) + 100
        window_end == IF Len(pitch_lower) < stop THEN Len(pitch_lower) ELSE stop
    IN  /\ title # ""
        /\ title_index # -1
        /\ Contains(Slice(pitch_lower, window_start, window_end), "rejected")

\* the line test for the recipe at 0-based position j of top_3_for_pitch
RejectedByLine(pitch_text, top3, j) ==
    LET pitch_lines == SplitLines(pitch_text)
        title == top3[j + 1].title
    IN  \E n \in 1..Len(pitch_lines) :
           LET line == pitch_lines[n]
               line_lower == Lower(line)
           IN  IF Lower(Strip(line)) = "rejected"
               THEN n - 1 = j /\ title # ""
               ELSE /\ Contains(line_lower, "rejected")
                    /\ \/ Contains(line_lower, ToString(j + 1) \o ".")
                       \/ (title # "" /\ Contains(line_lower, Lower(title)))

\* rejected_recipe_titles
rejected_recipe_titles(pitch_text, top3) ==
    IF Contains(Lower(pitch_text), "rejected")
    THEN {top3[j].title : j \in
            {k \in 1..Len(top3) :
                \/ RejectedNearTitle(Lower(pitch_text), top3[k].title)
                \/ RejectedByLine(pitch_text, top3, k - 1)}}
    ELSE {}

\* the rejection pass that names the rejected titles and keeps every recipe
DropTitlesKeepsAll(recipes, titles) == recipes

RECURSIVE DropTitles(_, _)
\* [r for r in processed_recipes if r.title not in rejected_recipe_titles]
DropTitles(recipes, titles) ==
    IF Len(recipes) = 0 THEN <<>>
    ELSE IF Head(recipes).title \in titles
         THEN DropTitles(Tail(recipes), titles)
         ELSE <<Head(recipes)>> \o DropTitles(Tail(recipes), titles)

\* the rejection pass for a non-empty pitch
RejectionPass(recipes, pitch_text) ==
    DropTitles(recipes, rejected_recipe_titles(pitch_text, Top3(recipes)))

----------------------------------------------------------------------------
(* Inputs *)

MaxRecipes == 4

Ingredients(names) == [i \in 1..Len(names) |-> [name |-> names[i]]]

Recipe(id, title, summary, names, used, missed, hasTime, ready) ==
    [id |-> id, title |-> title, summary |-> summary,
     extendedIngredients |-> Ingredients(names),
     usedIngredientCount |-> used, missedIngredientCount |-> missed,
     hasReadyTime |-> hasTime, readyInMinutes |-> ready,
     dietary_info |-> [dairyFree |-> FALSE, glutenFree |-> FALSE],
     nutrition |-> <<[name |-> "Calories", amount |-> 100 * id]>>]

Settings(mood, max_difficulty, max_time_minutes, max_missing, diets, intolerances) ==
    [mood |-> mood, max_difficulty |-> max_difficulty,
     max_time_minutes |-> max_time_minutes,
     has_max_time |-> FALSE, max_time |-> 0,
     has_user_profile |-> FALSE, user_profile |-> "balanced",
     has_max_missing |-> TRUE, max_missing_ingredients |-> max_missing,
     dietary_requirements |-> diets, intolerances |-> intolerances,
     skill_level |-> 50]

\* the recipes the recipe-search collaborator knows, in the order it ranks
\* them
FetchedRecipes ==
    << Recipe(1, "Mushroom Surprise", "", <<"chicken broth", "mushroom">>, 1, 1, TRUE, 25),
       Recipe(2, "Almond Pasta", "", <<"almond milk", "pasta">>, 1, 1, TRUE, 40),
       Recipe(3, "Cheese Pizza", "", <<"cheese", "flour", "tomato sauce">>, 3, 1, TRUE, 15),
       Recipe(4, "Chicken Shawarma Bowl", "", <<"almond milk", "pasta">>, 2, 4, TRUE, 70),
       Recipe(5, "Garden Salad", "", <<"tomato", "lettuce">>, 2, 0, TRUE, 10),
       Recipe(6, "Garden Salad", "Tastes like bacon", <<"butter", "coconut flakes">>,
              0, 6, FALSE, 0) >>

\* the settings of one request
RequestSettings ==
    { Settings(m, "easy", 30, 2, d, i) :
        m \in {"tired", "casual"},
        d \in {<<>>, <<"vegetarian">>, <<"Vegan">>},
        i \in {<<>>, <<"dairy">>, <<"dairy", "gluten">>} }
    \cup { [Settings("casual", "hard", 120, 5, <<>>, <<>>) EXCEPT !.has_max_missing = FALSE] }

\* xs reversed
Reverse(xs) == [i \in 1..Len(xs) |-> xs[Len(xs) + 1 - i]]

RECURSIVE Pick(_, _, _)
\* the elements of xs at the positions of P, from position i on, in order
Pick(xs, P, i) ==
    IF i > Len(xs) THEN <<>>
    ELSE IF i \in P THEN <<xs[i]>> \o Pick(xs, P, i + 1)
         ELSE Pick(xs, P, i + 1)

\* what one search may return: at most n of the known recipes, in the
\* collaborator's order or in the opposite order
ListsUpTo(xs, n) ==
    { Pick(order, P, 1) :
        order \in {xs, Reverse(xs)},
        P \in {Q \in SUBSET (1..Len(xs)) : Cardinality(Q) <= n} }

\* what generate_recommendation_pitch may answer for the recipes sent to it
PitchTexts(top3) ==
    { "", "Three great picks for tonight!", "REJECTED",
      "Here is what I found.\nREJECTED",
      "1. a fine choice\n2. REJECTED - unsafe for you" }
    \cup { top3[j].title \o ": REJECTED" : j \in 1..Len(top3) }

----------------------------------------------------------------------------
(* PantryChefOrchestrator.run_pantry_chef *)

NoSettings == Settings("casual", "hard", 120, 5, <<>>, <<>>)

\* the returned dict with total_processed taken from the fetched count
ReturnCountsFetched(recipes, pitch_text, has_pitch, fetched, errors) ==
    [recipes |-> recipes,
     pitch |-> pitch_text,
     metadata |-> [total_fetched |-> fetched,
                   total_processed |-> fetched,
                   ai_enriched |-> has_pitch,
                   errors |-> errors]]

Return(recipes, pitch_text, has_pitch, fetched, errors) ==
    [recipes |-> recipes,
     pitch |-> pitch_text,
     metadata |-> [total_fetched |-> fetched,
                   total_processed |-> Len(recipes),
                   ai_enriched |-> has_pitch,
                   errors |-> errors]]

NoResult == Return(<<>>, "", FALSE, 0, <<>>)

\* a request with two ingredients, no cuisine, and an LLM client
NoRequest ==
    [ingredients |-> <<"pasta", "tomato">>, cuisine |-> "", gemini_available |-> TRUE]

\* no call of the validator yet: no attempt, no wait, no result
NoValidatorCall ==
    [pc |-> "idle", attempt |-> 0, llm_calls |-> 0, waits |-> <<>>,
     outcomes |-> <<>>, returned |-> [kind |-> "none"]]

\* an empty search_cache table at time 0, no call yet; `latest` keeps for
\* each url what the latest cache_search that reached the table was given
NoCache == [table |-> {}, now |-> 0, last |-> [op |-> "none"], latest |-> <<>>]

\* no run of the graph yet
\* the LegalMind graph before app.invoke: no node has run; the counters
\* are those of the initial state the callers build
NoGraphRun ==
    [pc |-> "idle", question |-> "", generation |-> "", documents |-> <<>>,
     loop_step |-> 0, rewrite_count |-> 0, needs_retrieval |-> TRUE,
     hallucination_grade |-> "", answer_grade |-> "",
     step |-> 0, generate_runs |-> 0, rewrite_increments |-> 0]

Init ==
    /\ pc = "idle"
    /\ settings = NoSettings
    /\ raw_recipes = <<>>
    /\ processed_recipes = <<>>
    /\ after_enforce = <<>>
    /\ pitch = [state |-> "none", text |-> "", sent |-> <<>>]
    /\ result = NoResult
    /\ eng_recipe = <<>>
    /\ eng_out = [kind |-> "none"]
    /\ request = NoRequest
    /\ ingredients_to_search = NoRequest.ingredients
    /\ cuisine_used = NoRequest.cuisine
    /\ metadata_notes = <<>>
    /\ calls = <<>>
    /\ validator = NoValidatorCall
    /\ cache = NoCache
    /\ graph = NoGraphRun

\* run_pantry_chef is called with a non-empty ingredient list
Call ==
    /\ pc = "idle"
    /\ settings' \in RequestSettings
    /\ pc' = "fetch"
    /\ UNCHANGED <<side_vars, fetch_vars, raw_recipes, processed_recipes, after_enforce, pitch, result,
                   eng_recipe, eng_out>>

\* `if not ingredients`: the early return
CallNoIngredients ==
    /\ pc = "idle"
    /\ settings' \in RequestSettings
    /\ result' = Return(<<>>, "", FALSE, 0, <<"No ingredients provided">>)
    /\ pc' = "done"
    /\ UNCHANGED <<side_vars, fetch_vars, raw_recipes, processed_recipes, after_enforce, pitch,
                   eng_recipe, eng_out>>

\* Step A raises: the `except` of the first search
FetchError ==
    /\ pc = "fetch"
    /\ result' = Return(<<>>, "", FALSE, 0, <<"API Error">>)
    /\ pc' = "done"
    /\ UNCHANGED <<side_vars, fetch_vars, settings, raw_recipes, processed_recipes, after_enforce, pitch,
                   eng_recipe, eng_out>>

\* Step A ends with no recipe at all
FetchNothing ==
    /\ pc = "fetch"
    /\ result' = Return(<<>>, "", FALSE, 0, <<"No recipes found from API">>)
    /\ pc' = "done"
    /\ UNCHANGED <<side_vars, fetch_vars, settings, raw_recipes, processed_recipes, after_enforce, pitch,
                   eng_recipe, eng_out>>

\* Step A ends with raw_recipes
Fetch ==
    /\ pc = "fetch"
    /\ raw_recipes' \in ListsUpTo(FetchedRecipes, MaxRecipes) \ {<<>>}
    /\ pc' = "process"
    /\ UNCHANGED <<side_vars, fetch_vars, settings, processed_recipes, after_enforce, pitch, result,
                   eng_recipe, eng_out>>

\* Step B: PantryChefEngine(engine_settings).process_results(raw_recipes)
Process ==
    /\ pc = "process"
    /\ ~ProcessRaises(raw_recipes, settings)
    /\ processed_recipes' = process_results(raw_recipes, settings)
    /\ pc' = "enforce"
    /\ UNCHANGED <<side_vars, fetch_vars, settings, raw_recipes, after_enforce, pitch, result,
                   eng_recipe, eng_out>>

\* Step B raises: the `except` around the engine
ProcessError ==
    /\ pc = "process"
    /\ ProcessRaises(raw_recipes, settings)
    /\ result' = Return(<<>>, "", FALSE, Len(raw_recipes), <<"Processing Error">>)
    /\ pc' = "done"
    /\ UNCHANGED <<side_vars, fetch_vars, settings, raw_recipes, processed_recipes, after_enforce, pitch,
                   eng_recipe, eng_out>>

\* ENFORCER: processed_recipes = safe_recipes
Enforce ==
    /\ pc = "enforce"
    /\ processed_recipes' = SafetyEnforce(processed_recipes)
    /\ after_enforce' = SafetyEnforce(processed_recipes)
    /\ pc' = "enrich"
    /\ UNCHANGED <<side_vars, fetch_vars, settings, raw_recipes, pitch, result, eng_recipe, eng_out>>

\* Step C is skipped (enrich_with_ai false, no recipes or no LLM client),
\* then Step D
ReturnWithoutAI ==
    /\ pc = "enrich"
    /\ pitch' = [state |-> "skipped", text |-> "", sent |-> <<>>]
    /\ result' = Return(processed_recipes, "", FALSE, Len(raw_recipes), <<>>)
    /\ pc' = "done"
    /\ UNCHANGED <<side_vars, fetch_vars, settings, raw_recipes, processed_recipes, after_enforce,
                   eng_recipe, eng_out>>

\* Step C raises inside the try: pitch = None, then Step D
EnrichFails ==
    /\ pc = "enrich"
    /\ request.gemini_available
    /\ Len(processed_recipes) > 0
    /\ pitch' = [state |-> "failed", text |-> "", sent |-> Top3(processed_recipes)]
    /\ result' = Return(processed_recipes, "", FALSE, Len(raw_recipes), <<>>)
    /\ pc' = "done"
    /\ UNCHANGED <<side_vars, fetch_vars, settings, raw_recipes, processed_recipes, after_enforce,
                   eng_recipe, eng_out>>

\* the pitch generate_recommendation_pitch returns when its call of the LLM
\* raises: its `except` answers for the LLM
FallbackPitch(recommendations) ==
    "Here's " \o recommendations[1].title \o " for you!"

\* Step C where the call of the LLM fails inside
\* generate_recommendation_pitch: the fallback pitch is handled like an
\* answer of the LLM, then Step D
EnrichWithFallbackPitch ==
    /\ pc = "enrich"
    /\ request.gemini_available
    /\ Len(processed_recipes) > 0
    /\ LET top_3_for_pitch == Top3(processed_recipes)
           text == FallbackPitch(top_3_for_pitch)
           final == RejectionPass(processed_recipes, text)
       IN  /\ pitch' = [state |-> "fallback", text |-> text, sent |-> top_3_for_pitch]
           /\ processed_recipes' = final
           /\ result' = Return(final, text, TRUE, Len(raw_recipes), <<>>)
    /\ pc' = "done"
    /\ UNCHANGED <<side_vars, fetch_vars, settings, raw_recipes, after_enforce, eng_recipe, eng_out>>

\* Step C with an answer from the LLM, the rejection pass, then Step D
\* (an empty pitch_text is falsy: no rejection pass; ai_enriched is
\* `pitch is not None`)
EnrichAndReturn ==
    /\ pc = "enrich"
    /\ request.gemini_available
    /\ Len(processed_recipes) > 0
    /\ \E text \in PitchTexts(Top3(processed_recipes)) :
          LET final == IF text # "" THEN RejectionPass(processed_recipes, text)
                       ELSE processed_recipes
          IN  /\ pitch' = [state |-> "answered", text |-> text,
                            sent |-> Top3(processed_recipes)]
              /\ processed_recipes' = final
              /\ result' = Return(final, text, TRUE, Len(raw_recipes), <<>>)
    /\ pc' = "done"
    /\ UNCHANGED <<side_vars, fetch_vars, settings, raw_recipes, after_enforce, eng_recipe, eng_out>>

Next ==
    \/ Call
    \/ CallNoIngredients
    \/ FetchError
    \/ FetchNothing
    \/ Fetch
    \/ Process
    \/ ProcessError
    \/ Enforce
    \/ ReturnWithoutAI
    \/ EnrichFails
    \/ EnrichWithFallbackPitch
    \/ EnrichAndReturn

Spec == Init /\ [][Next]_vars

----------------------------------------------------------------------------
(* run_pantry_chef, Step A in detail: the first search and its fallbacks *)

\* the pantries of the requests: 2, 4 and 6 ingredients
Pantries ==
    { <<"pasta", "tomato">>,
      <<"pasta", "tomato", "cheese", "flour">>,
      <<"pasta", "tomato", "cheese", "flour", "butter", "lettuce">> }

Requests ==
    { [ingredients |-> i, cuisine |-> c, gemini_available |-> g] :
        i \in Pantries, c \in {"", "Italian"}, g \in BOOLEAN }

\* the settings of the requests of Step A: one with an intolerance, and one
\* without intolerances and without a missing-ingredient limit
FetchSettings ==
    { Settings("casual", "easy", 30, 2, <<>>, <<"dairy">>),
      [Settings("casual", "hard", 120, 5, <<>>, <<>>) EXCEPT !.has_max_missing = FALSE] }

\* what one call of the recipe-search client may do: raise; have its HTTP
\* request fail (_make_request prints the error and returns {}, and the
\* search returns []); or answer with the first n recipes it knows
SearchOutcomes ==
    { [kind |-> "raised", recipes |-> <<>>],
      [kind |-> "failed", recipes |-> <<>>] }
    \cup { [kind |-> "answered", recipes |-> SubSeq(FetchedRecipes, 1, n)] :
             n \in {0, 1, 5} }

\* what search_web_for_recipes may do when asked for count recipes: raise,
\* or return recipes[:count] of what the LLM wrote ([] when the answer does
\* not parse)
WebOutcomes(count) ==
    { [kind |-> "raised", recipes |-> <<>>] }
    \cup { [kind |-> "answered", recipes |-> SubSeq(Reverse(FetchedRecipes), 1, n)] :
             n \in {0, count} }

\* what get_low_priority_ingredients may do: raise, or name the core
\* ingredients
CategorizeOutcomes(ingredients) ==
    { [kind |-> "raised", core |-> <<>>] }
    \cup { [kind |-> "answered", core |-> c] :
             c \in { SubSeq(ingredients, 1, 2), ingredients } }

\* calls with one more call of a collaborator and what came of it
Called(step, o) ==
    Append(calls, [step |-> step, kind |-> o.kind, found |-> Len(o.recipes)])

\* metadata_notes with the note of a fallback, when it found something
Noted(found, note) ==
    IF found # <<>> THEN Append(metadata_notes, note) ELSE metadata_notes

\* the threshold of the web search used for the other fallbacks too
FewerThanThree(recipes) == Len(recipes) < 3

\* `not raw_recipes`: the condition of the fallback searches
NothingFound(recipes) == recipes = <<>>

\* run_pantry_chef is called with ingredients
FetchCall ==
    /\ pc = "idle"
    /\ settings' \in FetchSettings
    /\ request' \in Requests
    /\ ingredients_to_search' = request'.ingredients
    /\ cuisine_used' = request'.cuisine
    /\ metadata_notes' = <<>>
    /\ calls' = <<>>
    /\ pc' = "sacrifice"
    /\ UNCHANGED <<side_vars, raw_recipes, processed_recipes, after_enforce, pitch, result,
                   eng_recipe, eng_out>>

\* SMART SACRIFICE: with more than 5 ingredients and an LLM client, search
\* with the core ingredients only; a failure here is swallowed
SmartSacrifice ==
    /\ pc = "sacrifice"
    /\ IF Len(request.ingredients) > 5 /\ request.gemini_available
       THEN \E c \in CategorizeOutcomes(request.ingredients) :
               IF c.kind = "answered" /\ c.core # <<>>
                  /\ Len(c.core) < Len(request.ingredients)
               THEN /\ ingredients_to_search' = c.core
                    /\ metadata_notes' = Append(metadata_notes, "Smart Sacrifice")
               ELSE UNCHANGED <<ingredients_to_search, metadata_notes>>
       ELSE UNCHANGED <<ingredients_to_search, metadata_notes>>
    /\ pc' = "search"
    /\ UNCHANGED <<side_vars, settings, raw_recipes, processed_recipes, after_enforce, pitch,
                   result, eng_recipe, eng_out, request, cuisine_used, calls>>

\* Attempt 1: search_by_ingredients with all filters; when it raises, the
\* `except` returns the API error
FirstSearch ==
    /\ pc = "search"
    /\ \E o \in SearchOutcomes :
          /\ calls' = Called("search", o)
          /\ IF o.kind = "raised"
             THEN /\ result' = Return(<<>>, "", FALSE, 0, <<"API Error">>)
                  /\ pc' = "done"
                  /\ UNCHANGED raw_recipes
             ELSE /\ raw_recipes' = o.recipes
                  /\ pc' = "web_search"
                  /\ UNCHANGED result
    /\ UNCHANGED <<side_vars, settings, processed_recipes, after_enforce, pitch, eng_recipe,
                   eng_out, request, ingredients_to_search, cuisine_used,
                   metadata_notes>>

\* FALLBACK LOGIC: with fewer than 3 recipes and an LLM client, the recipes
\* of the Gemini web search are appended; a failure is swallowed
WebSearch ==
    /\ pc = "web_search"
    /\ IF Len(raw_recipes) < 3 /\ request.gemini_available
       THEN \E o \in WebOutcomes(3 - Len(raw_recipes)) :
               /\ calls' = Called("web_search", o)
               /\ raw_recipes' = raw_recipes \o o.recipes
               /\ metadata_notes' = Noted(o.recipes, "Gemini Web Search")
       ELSE UNCHANGED <<calls, raw_recipes, metadata_notes>>
    /\ pc' = "cuisine_broadening"
    /\ UNCHANGED <<side_vars, settings, processed_recipes, after_enforce, pitch, result,
                   eng_recipe, eng_out, request, ingredients_to_search, cuisine_used>>

\* Attempt 2: no recipe and a cuisine: the cuisine becomes part of a
\* free-text query
CuisineBroadening ==
    /\ pc = "cuisine_broadening"
    /\ IF NothingFound(raw_recipes) /\ request.cuisine # ""
       THEN \E o \in SearchOutcomes :
               /\ calls' = Called("cuisine_broadening", o)
               /\ raw_recipes' = o.recipes
               /\ metadata_notes' = Noted(o.recipes, "Cuisine broadening")
       ELSE UNCHANGED <<calls, raw_recipes, metadata_notes>>
    /\ pc' = "without_intolerances"
    /\ UNCHANGED <<side_vars, settings, processed_recipes, after_enforce, pitch, result,
                   eng_recipe, eng_out, request, ingredients_to_search, cuisine_used>>

\* Attempt 3: still no recipe, a cuisine and intolerances: search without
\* the intolerances
WithoutIntolerances ==
    /\ pc = "without_intolerances"
    /\ IF NothingFound(raw_recipes) /\ request.cuisine # "" /\ settings.intolerances # <<>>
       THEN \E o \in SearchOutcomes :
               /\ calls' = Called("without_intolerances", o)
               /\ raw_recipes' = o.recipes
               /\ metadata_notes' = Noted(o.recipes, "Intolerances removed")
       ELSE UNCHANGED <<calls, raw_recipes, metadata_notes>>
    /\ pc' = "without_cuisine"
    /\ UNCHANGED <<side_vars, settings, processed_recipes, after_enforce, pitch, result,
                   eng_recipe, eng_out, request, ingredients_to_search, cuisine_used>>

\* Attempt 4: still no recipe and a cuisine: search without the cuisine
WithoutCuisine ==
    /\ pc = "without_cuisine"
    /\ IF NothingFound(raw_recipes) /\ request.cuisine # ""
       THEN \E o \in SearchOutcomes :
               /\ calls' = Called("without_cuisine", o)
               /\ raw_recipes' = o.recipes
               /\ metadata_notes' = Noted(o.recipes,
                                          "Recommended for your Pantry (cuisine filter removed)")
               /\ cuisine_used' = IF o.recipes # <<>> THEN "" ELSE cuisine_used
       ELSE UNCHANGED <<calls, raw_recipes, metadata_notes, cuisine_used>>
    /\ pc' = "relaxed_search"
    /\ UNCHANGED <<side_vars, settings, processed_recipes, after_enforce, pitch, result,
                   eng_recipe, eng_out, request, ingredients_to_search>>

\* RELAXED SEARCH: still no recipe and more than 3 ingredients: search with
\* ingredients[:3]
RelaxedSearch ==
    /\ pc = "relaxed_search"
    /\ IF NothingFound(raw_recipes) /\ Len(request.ingredients) > 3
       THEN \E o \in SearchOutcomes :
               /\ calls' = Called("relaxed_search", o)
               /\ raw_recipes' = o.recipes
               /\ metadata_notes' = Noted(o.recipes, "Search relaxed to top 3 ingredients")
       ELSE UNCHANGED <<calls, raw_recipes, metadata_notes>>
    /\ pc' = "prioritization"
    /\ UNCHANGED <<side_vars, settings, processed_recipes, after_enforce, pitch, result,
                   eng_recipe, eng_out, request, ingredients_to_search, cuisine_used>>

\* the outcome of the search with the core ingredients: none is made when
\* they are the ingredients of the first search
CoreSearchOutcomes(core) ==
    IF core # ingredients_to_search THEN SearchOutcomes
    ELSE { [kind |-> "none", recipes |-> raw_recipes] }

\* GEMINI SEMANTIC INGREDIENT PRIORITIZATION: fewer than 5 recipes and an LLM
\* client: the recipes of a search with the core ingredients replace
\* raw_recipes when there are more of them; a failure is swallowed
Prioritization ==
    /\ pc = "prioritization"
    /\ IF Len(raw_recipes) < 5 /\ request.gemini_available
       THEN \E c \in CategorizeOutcomes(request.ingredients) :
               IF c.kind = "answered" /\ c.core # <<>>
                  /\ Len(c.core) < Len(request.ingredients)
               THEN \E o \in CoreSearchOutcomes(c.core) :
                       LET improved == Len(o.recipes) > Len(raw_recipes)
                       IN  /\ calls' = IF o.kind = "none" THEN calls
                                       ELSE Called("core_search", o)
                           /\ raw_recipes' = IF improved THEN o.recipes ELSE raw_recipes
                           /\ metadata_notes' =
                                 IF improved
                                 THEN Append(metadata_notes, "Semantic prioritization")
                                 ELSE metadata_notes
               ELSE UNCHANGED <<calls, raw_recipes, metadata_notes>>
       ELSE UNCHANGED <<calls, raw_recipes, metadata_notes>>
    /\ pc' = "fetched"
    /\ UNCHANGED <<side_vars, settings, processed_recipes, after_enforce, pitch, result,
                   eng_recipe, eng_out, request, ingredients_to_search, cuisine_used>>

\* `if not raw_recipes`: the return without recipes
NoRecipesFound ==
    /\ pc = "fetched"
    /\ raw_recipes = <<>>
    /\ result' = Return(<<>>, "", FALSE, 0, <<"No recipes found from API">>)
    /\ pc' = "done"
    /\ UNCHANGED <<side_vars, fetch_vars, settings, raw_recipes, processed_recipes,
                   after_enforce, pitch, eng_recipe, eng_out>>

\* Step A ends with raw_recipes
StartProcessing ==
    /\ pc = "fetched"
    /\ raw_recipes # <<>>
    /\ pc' = "process"
    /\ UNCHANGED <<side_vars, fetch_vars, settings, raw_recipes, processed_recipes,
                   after_enforce, pitch, result, eng_recipe, eng_out>>

FetchNext ==
    \/ FetchCall
    \/ SmartSacrifice
    \/ FirstSearch
    \/ WebSearch
    \/ CuisineBroadening
    \/ WithoutIntolerances
    \/ WithoutCuisine
    \/ RelaxedSearch
    \/ Prioritization
    \/ NoRecipesFound
    \/ StartProcessing
    \/ Process
    \/ ProcessError
    \/ Enforce
    \/ ReturnWithoutAI
    \/ EnrichFails
    \/ EnrichWithFallbackPitch
    \/ EnrichAndReturn

FetchSpec == Init /\ [][FetchNext]_vars

----------------------------------------------------------------------------
(* Single engine calls: PantryChefEngine(settings) and one call on one     *)
(* recipe                                                                  *)

ManifestChoices ==
    { <<"chicken breast", "garlic">>, <<"chicken broth", "mushroom">>,
      <<"chorizo", "rice">>, <<"salmon fillet", "rice">>,
      <<"almond milk", "pasta">>, <<"cheese", "flour", "tomato sauce">>,
      <<"butter", "coconut flakes">>, <<"coconut butter", "sugar">>,
      <<"gluten-free pasta", "Milk">>, <<"egg", "rice">>,
      <<"Tofu", "garlic">>, <<>> }

TitleChoices ==
    { "Mushroom Surprise", "Chicken Shawarma Bowl", "Cheese Pizza", "Vegan Delight" }

SafetyRecipes ==
    { Recipe(1, t, "", m, 1, 1, TRUE, 25) : t \in TitleChoices, m \in ManifestChoices }

SafetySettings ==
    { Settings("casual", "hard", 120, 5, d, i) :
        d \in { <<>>, <<"vegetarian">>, <<"Vegan">>, <<"pescatarian">>,
                <<"vegetarian", "vegan">> },
        i \in { <<>>, <<"dairy">>, <<"Dairy", "gluten">>, <<"gluten", "dairy">>,
                <<"eggs">>, <<"soy">> } }

FilterRecipes ==
    { [Recipe(1, "Supper", "", m, c[1], c[2], t[1], t[2])
          EXCEPT !.dietary_info.glutenFree = g] :
        m \in { <<"chicken", "rice">>, <<"tomato", "pasta">> },
        c \in { <<0, 0>>, <<3, 0>>, <<3, 1>>, <<3, 3>>, <<2, 9>>, <<6, 5>> },
        t \in { <<FALSE, 0>>, <<TRUE, 0>>, <<TRUE, 10>>, <<TRUE, 20>>, <<TRUE, 40>>,
                <<TRUE, 70>>, <<TRUE, 200>> },
        g \in BOOLEAN }

FilterSettings ==
    { [Settings(m, d, t, x, r, <<>>) EXCEPT !.has_max_time = h[1], !.max_time = h[2]] :
        m \in { "tired", "casual", "energetic", "sleepy" },
        d \in { "easy", "medium", "hard" },
        t \in { 20, 30 },
        x \in { 0, 2 },
        r \in { <<>>, <<"vegetarian">>, <<"Gluten-Free">> },
        h \in { <<FALSE, 0>>, <<TRUE, 60>> } }

\* engine._apply_safety_check(recipe), and whether the loop body of
\* process_results keeps the recipe
SafetyCall ==
    /\ pc = "idle"
    /\ \E s \in SafetySettings, r \in SafetyRecipes :
          /\ settings' = s
          /\ eng_recipe' = r
          /\ eng_out' = [kind |-> "safety",
                         safety_check |-> apply_safety_check(r, s),
                         kept |-> Len(ProcessOne(r, s)) > 0]
    /\ pc' = "engine"
    /\ UNCHANGED <<side_vars, fetch_vars, raw_recipes, processed_recipes, after_enforce, pitch, result>>

\* engine._apply_soft_filters_with_penalties(recipe) and
\* engine._apply_reasoning_with_penalties(recipe, ., filter_result)
FilterCall ==
    /\ pc = "idle"
    /\ \E s \in FilterSettings, r \in FilterRecipes :
          LET filter_result == apply_soft_filters_with_penalties(r, s)
          IN  /\ settings' = s
              /\ eng_recipe' = r
              /\ eng_out' = [kind |-> "filter",
                             filter_result |-> filter_result,
                             base_confidence |-> apply_reasoning(r, s, filter_result),
                             reasoning |-> apply_reasoning_with_penalties(r, s, filter_result)]
    /\ pc' = "engine"
    /\ UNCHANGED <<side_vars, fetch_vars, raw_recipes, processed_recipes, after_enforce, pitch, result>>

\* what findByIngredients / complexSearch gave for one recipe: its counts
\* (complexSearch results are normalised to 0 and 0)
SearchCounts == { <<0, 0>>, <<1, 0>>, <<2, 1>>, <<0, 3>> }

\* the user's ingredients
PantryChoices ==
    { <<>>, <<"Chicken", "rice">>, <<"milk">>, <<"garlic", "almond milk", "pasta">> }

\* one pass of the merge loop of search_by_ingredients over one recipe of
\* the first search
MatchCall ==
    /\ pc = "idle"
    /\ \E c \in SearchCounts, found \in BOOLEAN, m \in ManifestChoices,
          pantry \in PantryChoices :
          LET initial == Recipe(1, "Supper", "", <<>>, c[1], c[2], TRUE, 25)
              enriched == Recipe(1, "Supper", "", m, 0, 0, TRUE, 25)
              merged == merge_candidate(initial, found, enriched, pantry)
          IN  /\ eng_recipe' = merged
              /\ eng_out' = [kind |-> "match", initial |-> initial,
                             enriched_found |-> found, user_ingredients |-> pantry]
    /\ settings' = NoSettings
    /\ pc' = "engine"
    /\ UNCHANGED <<side_vars, fetch_vars, raw_recipes, processed_recipes, after_enforce, pitch, result>>

MaxCount == 6

ProfileChoices == { "minimal_shopper", "pantry_cleaner", "balanced", "gourmet" }

\* engine._calculate_smart_score(recipe) for an engine built with or
\* without a 'user_profile'
ScoreCall ==
    /\ pc = "idle"
    /\ \E h \in BOOLEAN, p \in ProfileChoices, u \in 0..MaxCount, m \in 0..MaxCount :
          LET s == [Settings("casual", "hard", 120, 5, <<>>, <<>>)
                      EXCEPT !.has_user_profile = h, !.user_profile = p]
              r == Recipe(1, "Supper", "", <<>>, u, m, TRUE, 25)
          IN  /\ settings' = s
              /\ eng_recipe' = r
              /\ eng_out' = [kind |-> "score",
                             smart_score |-> calculate_smart_score(r, s)]
    /\ pc' = "engine"
    /\ UNCHANGED <<side_vars, fetch_vars, raw_recipes, processed_recipes, after_enforce, pitch, result>>

\* the largest number of ingredients of a recipe handed to _assess_difficulty
MaxIngredients == 12

\* recipes of 0..MaxIngredients ingredients, with no preparation time, a
\* short one, and one on either side of an hour
DifficultyRecipes ==
    UNION { { Recipe(1, "Supper", "", <<"tomato", "pasta">>, used, total - used, t[1], t[2]) :
                used \in {0, 2} \cap (0..total),
                t \in { <<FALSE, 0>>, <<TRUE, 20>>, <<TRUE, 60>>, <<TRUE, 61>> } } :
            total \in 0..MaxIngredients }

\* engine._assess_difficulty(recipe, settings.get('max_difficulty', 'hard'))
DifficultyCall ==
    /\ pc = "idle"
    /\ \E r \in DifficultyRecipes, d \in {"easy", "medium", "hard"} :
          /\ settings' = Settings("casual", d, 30, 2, <<>>, <<>>)
          /\ eng_recipe' = r
          /\ eng_out' = [kind |-> "difficulty",
                         difficulty_check |-> assess_difficulty(r, d)]
    /\ pc' = "engine"
    /\ UNCHANGED <<side_vars, fetch_vars, raw_recipes, processed_recipes, after_enforce, pitch, result>>

\* recipes with and without ingredients and preparation time, below, at and
\* beyond the time limit
ReasonRecipes ==
    { Recipe(1, "Supper", "", <<"tomato", "pasta">>, c[1], c[2], t[1], t[2]) :
        c \in { <<0, 0>>, <<3, 0>>, <<3, 1>>, <<2, 9>>, <<6, 5>> },
        t \in { <<FALSE, 0>>, <<TRUE, 0>>, <<TRUE, 10>>, <<TRUE, 20>>, <<TRUE, 30>>,
                <<TRUE, 40>>, <<TRUE, 200>> } }

\* the four moods (one of them unknown) with a skill below, at and above
\* the ones required
ReasonSettings ==
    { [Settings(m, "hard", 30, 2, <<>>, <<>>) EXCEPT !.skill_level = k] :
        m \in { "tired", "casual", "energetic", "sleepy" },
        k \in { 0, 20, 50, 100 } }

\* engine._apply_reasoning(recipe, scoring_data['smart_score'],
\* filter_result), called as the loop of process_results calls it
ReasonCall ==
    /\ pc = "idle"
    /\ \E s \in ReasonSettings, r \in ReasonRecipes :
          LET filter_result == apply_soft_filters_with_penalties(r, s)
              smart == calculate_smart_score(r, s)
          IN  /\ settings' = s
              /\ eng_recipe' = r
              /\ eng_out' = [kind |-> "reasoning",
                             smart_score |-> smart,
                             internal_debug |-> internal_debug(r, s, smart, filter_result)]
    /\ pc' = "engine"
    /\ UNCHANGED <<side_vars, fetch_vars, raw_recipes, processed_recipes, after_enforce, pitch, result>>

EngineNext ==
    ReasonCall \/ MatchCall \/ ScoreCall \/ DifficultyCall \/ SafetyCall \/ FilterCall

EngineSpec == Init /\ [][EngineNext]_vars

----------------------------------------------------------------------------
(* GeminiRecipeValidator.validate_and_classify_recipe                      *)
(* (backend/Gemini_recipe_validator.py): one call, with the outcomes of    *)
(* its LLM calls and the waits of time.sleep                               *)

\* str.upper() of one character, as a table
UpperTable ==
    [c \in {SubSeq(LowerLetters, i, i) : i \in 1..Len(LowerLetters)} |->
        LET i == CHOOSE j \in 1..Len(LowerLetters) : SubSeq(LowerLetters, j, j) = c
        IN  SubSeq(UpperLetters, i, i)]

UpperChar(c) == IF c \in DOMAIN UpperTable THEN UpperTable[c] ELSE c

RECURSIVE Upper(_)
\* str.upper()
Upper(s) ==
    IF Len(s) = 0 THEN ""
    ELSE UpperChar(SubSeq(s, 1, 1)) \o Upper(SubSeq(s, 2, Len(s)))

RECURSIVE Repeat(_, _)
\* c * n
Repeat(c, n) ==
    IF n = 0 THEN ""
    ELSE LET half == Repeat(c, n \div 2)
         IN  IF n % 2 = 0 THEN half \o half ELSE half \o half \o c

max_retries == 3

\* _get_default_validation(): nothing classified, everything allowed
DefaultValidation ==
    [kind |-> "default", safe_for_user |-> TRUE, rejection_reason |-> ""]

\* a complete answer of the LLM
RejectingAnswer == "{\"safe_for_user\": false, \"rejection_reason\": \"contains dairy\"}"

\* an answer of the LLM cut off after n characters of its rejection reason
CutAnswer(n) == "{\"rejection_reason\": \"" \o Repeat("x", n) \o "\""

Digits == "0123456789"

\* the value of a decimal digit
DigitValue(c) == (CHOOSE i \in 1..Len(Digits) : SubSeq(Digits, i, i) = c) - 1

RECURSIVE ParseNat(_, _)
\* int(text) for a text of decimal digits, acc being the value read so far
ParseNat(text, acc) ==
    IF Len(text) = 0 THEN acc
    ELSE ParseNat(SubSeq(text, 2, Len(text)), 10 * acc + DigitValue(SubSeq(text, 1, 1)))

RECURSIVE ParseNatList(_, _)
\* the numbers of "1, 2, 3", item being the digits of the number being read
ParseNatList(text, item) ==
    IF Len(text) = 0 THEN (IF item = "" THEN <<>> ELSE <<ParseNat(item, 0)>>)
    ELSE IF SubSeq(text, 1, 1) = ","
    THEN <<ParseNat(item, 0)>> \o ParseNatList(SubSeq(text, 3, Len(text)), "")
    ELSE ParseNatList(SubSeq(text, 2, Len(text)), item \o SubSeq(text, 1, 1))

\* how json.dumps writes a dict with the one key 'results' up to its list
ResultsOpen == "{\"results\": ["

\* text is what json.dumps writes for a dict {'results': [numbers]}
IsResultsText(text) ==
    /\ Len(text) >= Len(ResultsOpen) + 2
    /\ SubSeq(text, 1, Len(ResultsOpen)) = ResultsOpen
    /\ SubSeq(text, Len(text) - 1, Len(text)) = "]}"

\* json.loads(text) for the answers above, for a dict of results and for
\* plain prose: the parsed dict, or the message of the JSONDecodeError it
\* raises (an object that is not closed fails at its end, anything that
\* starts no JSON value at 0)
JsonLoads(text) ==
    IF text = RejectingAnswer
    THEN [ok |-> TRUE,
          value |-> [kind |-> "parsed", safe_for_user |-> FALSE,
                     rejection_reason |-> "contains dairy"]]
    ELSE IF IsResultsText(text)
    THEN [ok |-> TRUE,
          value |-> [results |->
                       ParseNatList(SubSeq(text, Len(ResultsOpen) + 1, Len(text) - 2), "")]]
    ELSE IF Len(text) > 0 /\ SubSeq(text, 1, 1) = "{"
    THEN [ok |-> FALSE,
          msg |-> "Expecting ',' delimiter: line 1 column " \o ToString(Len(text) + 1)
                    \o " (char " \o ToString(Len(text)) \o ")"]
    ELSE [ok |-> FALSE, msg |-> "Expecting value: line 1 column 1 (char 0)"]

\* what client.models.generate_content does: it raises (rate limit, quota,
\* server error, timeout) or returns a response with a text
LLMOutcomes ==
    { [kind |-> "raised", text |-> m] :
        m \in { "429 Too Many Requests", "503 RESOURCE_EXHAUSTED",
                "Quota exceeded: resource_exhausted",
                "500 INTERNAL", "Read timed out" } }
    \cup { [kind |-> "answered", text |-> t] :
             t \in { RejectingAnswer, "Sure! Here is the classification.",
                     CutAnswer(12), CutAnswer(406) } }

\* the exception of one pass through the `try`, if any: what the LLM call
\* raised, or what json.loads raised on its answer
ErrorOf(outcome) ==
    IF outcome.kind = "raised" THEN [raised |-> TRUE, msg |-> outcome.text]
    ELSE IF JsonLoads(outcome.text).ok THEN [raised |-> FALSE, msg |-> ""]
    ELSE [raised |-> TRUE, msg |-> JsonLoads(outcome.text).msg]

\* "429" in error_msg or "RESOURCE_EXHAUSTED" in error_msg, for
\* error_msg = str(e).upper()
RetriedError(msg) ==
    LET error_msg == Upper(msg)
    IN  Contains(error_msg, "429") \/ Contains(error_msg, "RESOURCE_EXHAUSTED")

\* `if not self.is_available()`: no client, the default at once
ValidateUnavailable ==
    /\ validator.pc = "idle"
    /\ validator' = [validator EXCEPT !.pc = "done", !.returned = DefaultValidation]
    /\ UNCHANGED <<pc, settings, raw_recipes, processed_recipes, after_enforce, pitch,
                   result, eng_recipe, eng_out, fetch_vars, cache, graph>>

\* the call with a client: the prompt is built and the loop entered
ValidateCall ==
    /\ validator.pc = "idle"
    /\ validator' = [validator EXCEPT !.pc = "try"]
    /\ UNCHANGED <<pc, settings, raw_recipes, processed_recipes, after_enforce, pitch,
                   result, eng_recipe, eng_out, fetch_vars, cache, graph>>

\* one pass of `for attempt in range(max_retries)`: the LLM call, the
\* parse, the `except`, and after the last pass the return of the default
ValidateAttempt ==
    /\ validator.pc = "try"
    /\ validator.attempt < max_retries
    /\ \E outcome \in LLMOutcomes :
          LET e == ErrorOf(outcome)
              attempt == validator.attempt
              tried == [validator EXCEPT !.llm_calls = @ + 1,
                                         !.outcomes = Append(@, outcome)]
          IN  validator' =
                IF ~e.raised
                THEN [tried EXCEPT !.pc = "done",
                                   !.returned = JsonLoads(outcome.text).value]
                ELSE IF RetriedError(e.msg)
                THEN LET waited == [tried EXCEPT !.waits = Append(@, (attempt + 1) * 10),
                                                 !.attempt = attempt + 1]
                     IN  IF attempt + 1 < max_retries THEN waited
                         ELSE [waited EXCEPT !.pc = "done",
                                             !.returned = DefaultValidation]
                ELSE [tried EXCEPT !.pc = "done", !.returned = DefaultValidation]
    /\ UNCHANGED <<pc, settings, raw_recipes, processed_recipes, after_enforce, pitch,
                   result, eng_recipe, eng_out, fetch_vars, cache, graph>>

ValidatorNext == ValidateUnavailable \/ ValidateCall \/ ValidateAttempt

ValidatorSpec == Init /\ [][ValidatorNext]_vars

----------------------------------------------------------------------------
(* PantryChefDB.cache_search and get_cached_search (database.py): the      *)
(* search_cache table, with the clock of datetime.now() in whole hours of  *)
(* one day                                                                 *)

\* the latest hour the clock reaches
MaxClock == 3

CacheUrls ==
    { "https://api.spoonacular.com/recipes/complexSearch?query=pasta",
      "https://api.spoonacular.com/recipes/complexSearch?query=rice" }

\* hashlib.md5(request_url.encode()).hexdigest() of the two urls
generate_cache_key(request_url) ==
    CASE request_url = "https://api.spoonacular.com/recipes/complexSearch?query=pasta"
           -> "c18aad5ec93887f5be62b1e0b1863b79"
      [] request_url = "https://api.spoonacular.com/recipes/complexSearch?query=rice"
           -> "bf19fc11b94537ab6c081351f6469a81"

\* responses of the recipe search: the ids it found
CacheResponses == { [results |-> <<>>], [results |-> <<7>>], [results |-> <<12, 3>>] }

\* the values of cache_hours: no time at all, the default, two hours
CacheHours == { 0, 1, 2 }

RECURSIVE NatTexts(_)
\* str(n) of each number of a list
NatTexts(numbers) ==
    IF Len(numbers) = 0 THEN <<>>
    ELSE <<ToString(Head(numbers))>> \o NatTexts(Tail(numbers))

\* json.dumps(response_data) of a dict {'results': [numbers]}
JsonDumps(response_data) ==
    ResultsOpen \o JoinWith(NatTexts(response_data.results), ", ") \o "]}"

\* datetime.isoformat() of the hour t of the day
IsoFormat(t) ==
    "2026-01-01T" \o (IF t < 10 THEN "0" ELSE "") \o ToString(t) \o ":00:00"

\* datetime.fromisoformat(text), as the hour of the day
FromIsoFormat(text) == ParseNat(SubSeq(text, 12, 13), 0)

\* `datetime.now() < expires_date` read as `<=`
NotExpiredInclusive(now, expires_date) == now <= expires_date

\* datetime.now() < expires_date
NotExpired(now, expires_date) == now < expires_date

\* INSERT OR REPLACE INTO search_cache: cache_key is the primary key
InsertOrReplace(table, row) ==
    { r \in table : r.cache_key # row.cache_key } \cup { row }

\* SELECT response_data, expires_date FROM search_cache WHERE cache_key = ?
SelectByKey(table, cache_key) == { r \in table : r.cache_key = cache_key }

\* DELETE FROM search_cache WHERE cache_key = ?
DeleteByKey(table, cache_key) == { r \in table : r.cache_key # cache_key }

\* cache_search(request_url, response_data, cache_hours)
CacheSearch ==
    \E request_url \in CacheUrls, response_data \in CacheResponses,
       cache_hours \in CacheHours :
        LET cache_key == generate_cache_key(request_url)
            expires_date == cache.now + cache_hours
            row == [cache_key |-> cache_key, request_url |-> request_url,
                    response_data |-> JsonDumps(response_data),
                    expires_date |-> IsoFormat(expires_date)]
        IN  /\ cache' = [cache EXCEPT
                  !.table = InsertOrReplace(@, row),
                  !.last = [op |-> "cache_search", url |-> request_url,
                            db_error |-> FALSE],
                  !.latest = [u \in (DOMAIN @) \cup {request_url} |->
                                IF u = request_url
                                THEN [response_data |-> response_data,
                                      expires_date |-> expires_date]
                                ELSE @[u]]]
            /\ UNCHANGED <<pc, settings, raw_recipes, processed_recipes, after_enforce,
                           pitch, result, eng_recipe, eng_out, fetch_vars, validator,
                           graph>>

\* cache_search where the database raises: the `except` prints the error
\* and nothing is stored
CacheSearchError ==
    \E request_url \in CacheUrls :
        /\ cache' = [cache EXCEPT
              !.last = [op |-> "cache_search", url |-> request_url, db_error |-> TRUE]]
        /\ UNCHANGED <<pc, settings, raw_recipes, processed_recipes, after_enforce,
                       pitch, result, eng_recipe, eng_out, fetch_vars, validator, graph>>

\* the dict get_cached_search returns, or None
NoneReturned == [none |-> TRUE]

\* get_cached_search(request_url)
GetCachedSearch ==
    \E request_url \in CacheUrls :
        LET cache_key == generate_cache_key(request_url)
            rows == SelectByKey(cache.table, cache_key)
            row == CHOOSE r \in rows : TRUE
            hit == rows # {} /\ NotExpired(cache.now, FromIsoFormat(row.expires_date))
        IN  /\ cache' = [cache EXCEPT
                  !.table = IF rows # {} /\ ~hit THEN DeleteByKey(@, cache_key) ELSE @,
                  !.last = [op |-> "get_cached_search", url |-> request_url,
                            db_error |-> FALSE, at |-> cache.now,
                            returned |-> IF hit THEN JsonLoads(row.response_data).value
                                         ELSE NoneReturned]]
            /\ UNCHANGED <<pc, settings, raw_recipes, processed_recipes, after_enforce,
                           pitch, result, eng_recipe, eng_out, fetch_vars, validator,
                           graph>>

\* get_cached_search where the database raises: the `except` returns None
GetCachedSearchError ==
    \E request_url \in CacheUrls :
        /\ cache' = [cache EXCEPT
              !.last = [op |-> "get_cached_search", url |-> request_url,
                        db_error |-> TRUE, at |-> cache.now,
                        returned |-> NoneReturned]]
        /\ UNCHANGED <<pc, settings, raw_recipes, processed_recipes, after_enforce,
                       pitch, result, eng_recipe, eng_out, fetch_vars, validator, graph>>

\* an hour passes
Tick ==
    /\ cache.now < MaxClock
    /\ cache' = [cache EXCEPT !.now = @ + 1]
    /\ UNCHANGED <<pc, settings, raw_recipes, processed_recipes, after_enforce,
                   pitch, result, eng_recipe, eng_out, fetch_vars, validator, graph>>

\* the local clock is set back an hour (datetime.now() is the naive local
\* time)
ClockSetBack ==
    /\ cache.now > 0
    /\ cache' = [cache EXCEPT !.now = @ - 1]
    /\ UNCHANGED <<pc, settings, raw_recipes, processed_recipes, after_enforce,
                   pitch, result, eng_recipe, eng_out, fetch_vars, validator, graph>>

CacheNext ==
    \/ CacheSearch
    \/ CacheSearchError
    \/ GetCachedSearch
    \/ GetCachedSearchError
    \/ Tick
    \/ ClockSetBack

CacheSpec == Init /\ [][CacheNext]_vars

----------------------------------------------------------------------------
(* LegalMindAI LM_Phase_1 graph.py: the self-correcting RAG graph *)

\* `loop_step >= 5` of decide_to_generate and
\* decide_after_hallucination_check
MaxLoopSteps == 5

\* `rewrite_count >= 2` of rewrite_query and decide_after_answer_check
MaxRewrites == 2

\* the questions a run is invoked with
Questions == {"What is the standard of review?", "What is a tort?"}

\* what call_gemini may do: raise its Exception, or return the stripped
\* text of the response
GeminiOutcomes(texts) ==
    {[raised |-> TRUE, text |-> ""]} \cup {[raised |-> FALSE, text |-> t] : t \in texts}

RouterAnswers == {"general", "GENERAL.", "Retrieval", "unsure"}
GraderAnswers == {"pass", "PASS", "fail", "Fail"}
GenerationAnswers == {"", "De novo."}
RewriteAnswers == {"standard of review precedent"}

\* what the vector store may do in retrieve: get_vectorstore raises, the
\* search raises (caught: no documents), or the search returns chunks
RetrieverOutcomes ==
    { [raised |-> TRUE, documents |-> <<>>],
      [raised |-> FALSE, documents |-> <<>>],
      [raised |-> FALSE, documents |-> <<"Doe v. Roe">>] }

\* decide_route
decide_route(state) == IF state.needs_retrieval THEN "retrieve" ELSE "general_answer"

\* decide_to_generate without the loop_step limit
decide_to_generate_unlimited(state) == "generate"

\* decide_to_generate, with "end" mapped to END
decide_to_generate(state) ==
    IF state.loop_step >= MaxLoopSteps THEN "END" ELSE "generate"

\* decide_after_hallucination_check
decide_after_hallucination_check(state) ==
    IF state.loop_step >= MaxLoopSteps THEN "grade_answer"
    ELSE IF state.hallucination_grade = "pass" THEN "grade_answer"
    ELSE "generate"

\* decide_after_answer_check, with "end" mapped to END
decide_after_answer_check(state) ==
    IF state.answer_grade = "pass" THEN "END"
    ELSE IF state.rewrite_count >= MaxRewrites THEN "END"
    ELSE "rewrite_query"

\* the exception of a node leaves app.invoke
NodeRaised(state) == [state EXCEPT !.pc = "raised", !.step = @ + 1]

\* the node has returned `state` and the edge leads to `node`
NodeDone(state, node) == [state EXCEPT !.pc = node, !.step = @ + 1]

GraphUnchanged ==
    UNCHANGED <<pc, settings, raw_recipes, processed_recipes, after_enforce, pitch,
                result, eng_recipe, eng_out, fetch_vars, validator, cache>>

\* app.invoke(initial_state): the entry point is route_question
Invoke ==
    /\ graph.pc = "idle"
    /\ \E q \in Questions :
          graph' = [NoGraphRun EXCEPT !.pc = "route_question", !.question = q]
    /\ GraphUnchanged

\* node route_question and its conditional edge
RouteQuestion ==
    /\ graph.pc = "route_question"
    /\ \E o \in GeminiOutcomes(RouterAnswers) :
          graph' =
            IF o.raised THEN NodeRaised(graph)
            ELSE LET state == [graph EXCEPT !.needs_retrieval =
                                   ~Contains(Lower(o.text), "general")]
                 IN  NodeDone(state, decide_route(state))
    /\ GraphUnchanged

\* node general_answer and its edge to END
GeneralAnswer ==
    /\ graph.pc = "general_answer"
    /\ \E o \in GeminiOutcomes(GenerationAnswers) :
          graph' =
            IF o.raised THEN NodeRaised(graph)
            ELSE NodeDone([graph EXCEPT !.generation = o.text,
                                        !.needs_retrieval = FALSE], "END")
    /\ GraphUnchanged

\* node rewrite_query and its edge to retrieve
RewriteQuery ==
    /\ graph.pc = "rewrite_query"
    /\ IF graph.rewrite_count >= MaxRewrites
       THEN graph' = NodeDone(graph, "retrieve")
       ELSE \E o \in GeminiOutcomes(RewriteAnswers) :
               graph' =
                 IF o.raised THEN NodeRaised(graph)
                 ELSE NodeDone([graph EXCEPT !.question = o.text,
                                             !.rewrite_count = @ + 1,
                                             !.rewrite_increments = @ + 1],
                               "retrieve")
    /\ GraphUnchanged

\* node retrieve and its conditional edge
Retrieve ==
    /\ graph.pc = "retrieve"
    /\ \E o \in RetrieverOutcomes :
          graph' =
            IF o.raised THEN NodeRaised(graph)
            ELSE LET state == [graph EXCEPT !.documents = o.documents]
                 IN  NodeDone(state, decide_to_generate(state))
    /\ GraphUnchanged

\* node generate and its edge to grade_hallucination
Generate ==
    /\ graph.pc = "generate"
    /\ \E o \in GeminiOutcomes(GenerationAnswers) :
          graph' =
            IF o.raised THEN NodeRaised([graph EXCEPT !.generate_runs = @ + 1])
            ELSE NodeDone([graph EXCEPT !.loop_step = @ + 1,
                                        !.generate_runs = @ + 1,
                                        !.generation = o.text],
                          "grade_hallucination")
    /\ GraphUnchanged

\* node grade_hallucination and its conditional edge
GradeHallucination ==
    /\ graph.pc = "grade_hallucination"
    /\ IF graph.generation = "" \/ Len(graph.documents) = 0
       THEN LET state == [graph EXCEPT !.hallucination_grade = "fail"]
            IN  graph' = NodeDone(state, decide_after_hallucination_check(state))
       ELSE \E o \in GeminiOutcomes(GraderAnswers) :
               graph' =
                 IF o.raised THEN NodeRaised(graph)
                 ELSE LET state == [graph EXCEPT !.hallucination_grade =
                                        IF Contains(Lower(o.text), "pass")
                                        THEN "pass" ELSE "fail"]
                      IN  NodeDone(state, decide_after_hallucination_check(state))
    /\ GraphUnchanged

\* node grade_answer and its conditional edge
GradeAnswer ==
    /\ graph.pc = "grade_answer"
    /\ IF graph.generation = ""
       THEN LET state == [graph EXCEPT !.answer_grade = "fail"]
            IN  graph' = NodeDone(state, decide_after_answer_check(state))
       ELSE \E o \in GeminiOutcomes(GraderAnswers) :
               graph' =
                 IF o.raised THEN NodeRaised(graph)
                 ELSE LET state == [graph EXCEPT !.answer_grade =
                                        IF Contains(Lower(o.text), "pass")
                                        THEN "pass" ELSE "fail"]
                      IN  NodeDone(state, decide_after_answer_check(state))
    /\ GraphUnchanged

GraphNext ==
    \/ Invoke
    \/ RouteQuestion
    \/ GeneralAnswer
    \/ RewriteQuery
    \/ Retrieve
    \/ Generate
    \/ GradeHallucination
    \/ GradeAnswer

\* app.invoke runs the nodes one after the other until END or an
\* exception: no node that is due waits for ever
GraphSpec == Init /\ [][GraphNext]_vars /\ WF_vars(GraphNext)

----------------------------------------------------------------------------
(* Vocabulary of the properties *)

\* the SafetyVerdict a safety_check dict stands for
Verdict(safety_check) ==
    IF ~safety_check.passed THEN "HardReject"
    ELSE IF safety_check.requires_ai_validation THEN "SoftFlag"
    ELSE "Safe"

\* the names of the manifest, as fetched
ManifestNames(recipe) ==
    [i \in 1..Len(recipe.extendedIngredients) |-> recipe.extendedIngredients[i].name]

\* some ingredient string of the manifest contains one of the keywords
ManifestHas(recipe, kws) ==
    \E i \in 1..Len(recipe.extendedIngredients) :
        AnyIn(kws, Lower(recipe.extendedIngredients[i].name))

IsVegetarian(s) == InList("vegetarian", LowerAll(s.dietary_requirements))
IsVegan(s) == InList("vegan", LowerAll(s.dietary_requirements))

\* the recipe with this id is in the list
HasId(recipes, id) == \E i \in 1..Len(recipes) : recipes[i].id = id

\* the recipe with this id is in the list and carries the SoftFlag marker
\* and score
HasFlagged(recipes, id) ==
    \E i \in 1..Len(recipes) :
        /\ recipes[i].id = id
        /\ recipes[i].metadata.safety_check.passed
        /\ recipes[i].metadata.safety_check.requires_ai_validation
        /\ SafetyScoreOf(recipes[i].metadata.safety_check) = SafetyFloor

NormalReturn == pc = "done" /\ Len(result.metadata.errors) = 0

----------------------------------------------------------------------------
(* C1 *)

\* C1: no recipe returned by run_pantry_chef has a HardReject verdict or a
\* safety score below 0.5, neither in the safety_check it carries nor in
\* the verdict the safety gate gives the fetched recipe it was built from.
C1_NoUnsafeRecipeReturned ==
    pc = "done" =>
        \A i \in 1..Len(result.recipes) :
            LET sc == result.recipes[i].metadata.safety_check
            IN  /\ sc.passed
                /\ SafetyScoreOf(sc) >= SafetyFloor
                /\ \A k \in 1..Len(raw_recipes) :
                      raw_recipes[k].id = result.recipes[i].id =>
                          LET v == apply_safety_check(raw_recipes[k], settings)
                          IN  v.passed /\ SafetyScoreOf(v) >= SafetyFloor

\* a run that returns recipes although the gate rejected a fetched one
C1_Witness ==
    /\ pc = "done"
    /\ Len(result.recipes) > 0
    /\ \E k \in 1..Len(raw_recipes) :
          /\ ~HardExecutioner(raw_recipes[k], settings)
          /\ ~apply_safety_check(raw_recipes[k], settings).passed

----------------------------------------------------------------------------
(* C2 *)

\* C2: with 'vegetarian' required, a fetched recipe whose manifest holds a
\* land-meat or sea-meat keyword gets a HardReject verdict under every
\* title, and is not in the returned list.
C2_VegetarianMeatRejected ==
    (pc = "done" /\ IsVegetarian(settings)) =>
        \A k \in 1..Len(raw_recipes) :
            ManifestHas(raw_recipes[k], LAND_MEAT \o SEA_MEAT) =>
                /\ \A t \in TitleChoices :
                      Verdict(apply_safety_check([raw_recipes[k] EXCEPT !.title = t],
                                                 settings)) = "HardReject"
                /\ ~HasId(result.recipes, raw_recipes[k].id)

\* a vegetarian run that fetched "chicken broth" under a meat-free title and
\* still returns other recipes
C2_Witness ==
    /\ pc = "done"
    /\ IsVegetarian(settings)
    /\ Len(result.recipes) > 0
    /\ \E k \in 1..Len(raw_recipes) :
          /\ ManifestHas(raw_recipes[k], <<"chicken broth">>)
          /\ ~AnyIn(MEAT_KEYWORDS, Lower(raw_recipes[k].title))

----------------------------------------------------------------------------
(* C3 *)

\* what the claim calls the safety outcome of a candidate
Outcome(recipe, s) ==
    [verdict |-> Verdict(apply_safety_check(recipe, s)),
     kept |-> Len(ProcessOne(recipe, s)) > 0]

\* C3: the safety outcome (verdict, and whether process_results drops the
\* candidate) is the same for every title and summary given to the same
\* manifest under the same settings.
C3_OutcomeIgnoresTitle ==
    eng_out.kind = "safety" =>
        \A t \in TitleChoices, m \in {"", "Tastes like bacon"} :
            Outcome([eng_recipe EXCEPT !.title = t, !.summary = m], settings)
              = [verdict |-> Verdict(eng_out.safety_check), kept |-> eng_out.kept]

----------------------------------------------------------------------------
(* C4 *)

\* some intolerance has a keyword in the text and none of its safe words
UnqualifiedHit(text, intolerances) ==
    \E i \in 1..Len(intolerances) :
        /\ AnyIn(ALLERGY_MAP(Lower(intolerances[i])), text)
        /\ ~AnyIn(SAFE_WORDS(Lower(intolerances[i])), text)

\* some intolerance has a keyword in the text
AnyHit(text, intolerances) ==
    \E i \in 1..Len(intolerances) : AnyIn(ALLERGY_MAP(Lower(intolerances[i])), text)

\* C4: for a candidate the diet check lets through and a non-empty
\* intolerance list, the verdict is HardReject when an intolerance keyword
\* hits with no safe-word of that intolerance, SoftFlag (passed, requires AI
\* validation, score 0.5) when the hits all come with a safe-word, and Safe
\* with score 1.0 when no keyword hits.
C4_VerdictByHits ==
    (/\ eng_out.kind = "safety"
     /\ Len(DietCheck(eng_recipe, settings)) = 0
     /\ Len(settings.intolerances) > 0) =>
        LET text == recipe_text(eng_recipe)
            sc == eng_out.safety_check
        IN  IF UnqualifiedHit(text, settings.intolerances)
            THEN Verdict(sc) = "HardReject"
            ELSE IF AnyHit(text, settings.intolerances)
            THEN Verdict(sc) = "SoftFlag" /\ SafetyScoreOf(sc) = 5
            ELSE Verdict(sc) = "Safe" /\ SafetyScoreOf(sc) = 10

----------------------------------------------------------------------------
(* C5 *)

IsAlmondMilkPasta(recipe) == ManifestNames(recipe) = <<"almond milk", "pasta">>

RejectedInRun ==
    IF pitch.state = "answered" /\ pitch.text # ""
    THEN rejected_recipe_titles(pitch.text, Top3(after_enforce))
    ELSE {}

----------------------------------------------------------------------------
(* C6 *)

\* C6: with a dairy intolerance (and no dietary requirement), process_results
\* keeps every recipe whose ingredients contain 'cheese' or 'butter', with
\* safety_check.passed = true and requires_ai_validation = true.
C6_FlagDontDelete ==
    (/\ pc = "enforce"
     /\ Len(settings.dietary_requirements) = 0
     /\ InList("dairy", LowerAll(settings.intolerances))) =>
        \A k \in 1..Len(raw_recipes) :
            ManifestHas(raw_recipes[k], <<"cheese", "butter">>) =>
                \E i \in 1..Len(processed_recipes) :
                    /\ processed_recipes[i].id = raw_recipes[k].id
                    /\ processed_recipes[i].metadata.safety_check.passed
                    /\ processed_recipes[i].metadata.safety_check.requires_ai_validation

----------------------------------------------------------------------------
(* C7 *)

\* an ingredient string with a dairy/egg keyword and no safe-alternative
\* keyword in that same string
UnqualifiedDairyEgg(recipe) ==
    \E i \in 1..Len(recipe.extendedIngredients) :
        LET name == Lower(recipe.extendedIngredients[i].name)
        IN  /\ AnyIn(DAIRY_EGGS, name)
            /\ ~AnyIn(SAFE_WORDS("dairy") \o SAFE_WORDS("eggs"), name)

\* C7: with 'vegan' required (and 'vegetarian' not), a candidate with a
\* dairy or egg keyword is HardReject unless a safe-alternative keyword
\* occurs in the same ingredient string; a safe word in another ingredient
\* does not prevent the rejection.
C7_VeganSameIngredient ==
    (/\ eng_out.kind = "safety"
     /\ IsVegan(settings)
     /\ ~IsVegetarian(settings)
     /\ UnqualifiedDairyEgg(eng_recipe)) =>
        Verdict(eng_out.safety_check) = "HardReject"

----------------------------------------------------------------------------
(* C8 *)

----------------------------------------------------------------------------
(* C9 *)

\* what the claim calls rejected by the safety checks
SafetyRejected(recipe, s) ==
    HardExecutioner(recipe, s) \/ ~apply_safety_check(recipe, s).passed

\* C9: every fetched recipe the safety checks do not reject is in the output
\* of process_results exactly once, whatever time, difficulty,
\* missing-ingredient or dietary preferences it exceeds, and nothing else is.
C9_NoSoftDeletion ==
    pc = "enforce" =>
        /\ \A k \in 1..Len(raw_recipes) :
              ~SafetyRejected(raw_recipes[k], settings) =>
                  Cardinality({i \in 1..Len(processed_recipes) :
                                  processed_recipes[i].id = raw_recipes[k].id}) = 1
        /\ \A i \in 1..Len(processed_recipes) :
              \E k \in 1..Len(raw_recipes) :
                  /\ raw_recipes[k].id = processed_recipes[i].id
                  /\ ~SafetyRejected(raw_recipes[k], settings)

\* process_results returned a recipe that exceeds the time, the missing
\* count and the difficulty preferences
C9_Witness ==
    /\ pc = "enforce"
    /\ \E i \in 1..Len(processed_recipes) :
          LET flags == processed_recipes[i].metadata.violation_flags
          IN  /\ flags.has_time_violation
              /\ flags.has_missing_violation
              /\ flags.has_difficulty_violation
              /\ processed_recipes[i].metadata.penalty_score > 0

----------------------------------------------------------------------------
(* C10 *)

\* C10: the confidence assigned by the reasoning step, after bonuses, cap
\* and penalty reduction, lies in [50, 95].
C10_ConfidenceRange ==
    eng_out.kind = "filter" =>
        /\ eng_out.reasoning.confidence >= 50
        /\ eng_out.reasoning.confidence <= 95

\* a call whose bonuses exceed the cap and whose penalty is positive
C10_Witness ==
    /\ eng_out.kind = "filter"
    /\ settings.mood = "tired"
    /\ eng_recipe.hasReadyTime /\ eng_recipe.readyInMinutes \in 1..20
    /\ eng_recipe.missedIngredientCount <= 1
    /\ eng_out.filter_result.filter_results.difficulty.level = "easy"
    /\ eng_out.base_confidence = MaxConfidence
    /\ eng_out.filter_result.penalty_score > 0

----------------------------------------------------------------------------
(* C11 *)

\* C11: the smart score is 0 when used = 0 and missing = 0, for every
\* profile name (an unrecognized or absent name uses the balanced weights),
\* and with one more used ingredient and the same missing count it is never
\* lower.
C11_SmartScoreMonotone ==
    eng_out.kind = "score" =>
        /\ (eng_recipe.usedIngredientCount = 0 /\ eng_recipe.missedIngredientCount = 0)
              => eng_out.smart_score = 0
        /\ (~settings.has_user_profile \/ settings.user_profile = "gourmet")
              => ProfileOf(settings) = USER_PROFILES("balanced")
        /\ calculate_smart_score(
              [eng_recipe EXCEPT !.usedIngredientCount = @ + 1], settings)
             >= eng_out.smart_score

\* a call under the minimal_shopper profile with missing ingredients and a
\* score strictly between 0 and 100
C11_Witness ==
    /\ eng_out.kind = "score"
    /\ settings.has_user_profile /\ settings.user_profile = "minimal_shopper"
    /\ eng_recipe.missedIngredientCount > 0
    /\ eng_out.smart_score > 0 /\ eng_out.smart_score < 1000

----------------------------------------------------------------------------
(* C12 *)

\* C12: for every candidate returned by the ingredient matching step, the
\* used count plus the missing count equals the length of its ingredient
\* manifest.
C12_CountsSumToManifest ==
    eng_out.kind = "match" =>
        eng_recipe.usedIngredientCount + eng_recipe.missedIngredientCount
          = Len(eng_recipe.extendedIngredients)

----------------------------------------------------------------------------
(* C13 *)

\* no recipe of the list has a lower confidence than a later one
SortedByConfidence(recipes) ==
    \A i, j \in 1..Len(recipes) :
        i < j => recipes[i].confidence >= recipes[j].confidence

\* C13: the list returned by run_pantry_chef is in descending order of
\* confidence, and so is the list after process_results and after
\* SafetyEnforce.
C13_SortedByConfidence ==
    /\ pc \in {"enforce", "enrich", "done"} => SortedByConfidence(processed_recipes)
    /\ pc \in {"enrich", "done"} => SortedByConfidence(after_enforce)
    /\ pc = "done" => SortedByConfidence(result.recipes)

\* a return of two or more recipes of different confidence, fetched in
\* another order, after the rejection pass removed a recipe
C13_Witness ==
    /\ NormalReturn
    /\ Len(result.recipes) >= 2
    /\ result.recipes[1].confidence > result.recipes[Len(result.recipes)].confidence
    /\ Len(result.recipes) < Len(after_enforce)
    /\ \E a, b \in 1..Len(raw_recipes) :
          /\ a < b
          /\ \E i, j \in 1..Len(result.recipes) :
                /\ i < j
                /\ result.recipes[i].id = raw_recipes[b].id
                /\ result.recipes[j].id = raw_recipes[a].id

----------------------------------------------------------------------------
\* C14: the ingredient manifest and the nutrient array of every recipe the
\* pipeline puts out are the ones of the fetched recipe with the same id: no
\* entry dropped, added or rewritten, at any stage from process_results on.
SameManifestAndNutrition(out, fetched) ==
    /\ out.id = fetched.id
    /\ out.extendedIngredients = fetched.extendedIngredients
    /\ out.nutrition = fetched.nutrition

PreservedFromFetch(recipes) ==
    \A i \in 1..Len(recipes) :
        \E j \in 1..Len(raw_recipes) :
            SameManifestAndNutrition(recipes[i], raw_recipes[j])

C14_ManifestAndNutritionPreserved ==
    /\ pc \in {"enforce", "enrich", "done"} => PreservedFromFetch(processed_recipes)
    /\ pc \in {"enrich", "done"} => PreservedFromFetch(after_enforce)
    /\ pc = "done" => PreservedFromFetch(result.recipes)

\* a normal return of two or more recipes, one of them with a manifest of
\* several entries and a nutrient array that is not empty
C14_Witness ==
    /\ NormalReturn
    /\ Len(result.recipes) >= 2
    /\ \E i \in 1..Len(result.recipes) :
          /\ Len(result.recipes[i].extendedIngredients) >= 2
          /\ Len(result.recipes[i].nutrition) >= 1

----------------------------------------------------------------------------
\* C15: when the recipe-search call of the first search fails (it raises, or
\* its request fails), the request fails: run_pantry_chef returns no recipe
\* and an error, whatever the later fallbacks find.
FirstSearchFailed ==
    /\ calls # <<>>
    /\ calls[1].step = "search"
    /\ calls[1].kind \in {"raised", "failed"}

C15_FetchFailureIsFatal ==
    (pc = "done" /\ FirstSearchFailed) =>
        /\ result.recipes = <<>>
        /\ result.metadata.errors # <<>>

----------------------------------------------------------------------------
\* C16: when the call of the LLM fails during Step C, run_pantry_chef
\* returns the recipes that left SafetyEnforce, in their order, with no
\* pitch and metadata.ai_enriched false.
LLMCallFailed == pitch.state \in {"failed", "fallback"}

C16_LLMFailureOmitsPitch ==
    (pc = "done" /\ LLMCallFailed) =>
        /\ result.recipes = after_enforce
        /\ result.pitch = ""
        /\ ~result.metadata.ai_enriched

----------------------------------------------------------------------------
\* the steps of Step A that are fallbacks
CuisineFallbacks == {"cuisine_broadening", "without_intolerances", "without_cuisine"}
SearchFallbacks == CuisineFallbacks \cup {"relaxed_search"}

\* the API error is returned for a first search that raised, and for
\* nothing else: an exception inside a fallback does not end the request
OnlyFirstSearchPropagates ==
    (pc = "done" /\ result.metadata.errors = <<"API Error">>) =>
        (Len(calls) = 1 /\ calls[1].kind = "raised")

\* the place of a step in the order (a) cuisine broadening, (b) without
\* intolerances, (c) without cuisine, (d) top-3 ingredients, (e) LLM
\* fabrication
StatedRank(step) ==
    CASE step = "search" -> 0
      [] step = "cuisine_broadening" -> 1
      [] step = "without_intolerances" -> 2
      [] step = "without_cuisine" -> 3
      [] step = "relaxed_search" -> 4
      [] step = "web_search" -> 5
      [] OTHER -> 6

\* C17 as stated: the fallbacks are applied in the order (a), (b), (c), (d),
\* (e), each only if the one before it found nothing, and an exception
\* inside a fallback is not propagated.
C17_FallbacksInStatedOrder ==
    /\ \A i, j \in 1..Len(calls) :
          i < j => StatedRank(calls[i].step) < StatedRank(calls[j].step)
    /\ \A j \in 2..Len(calls) :
          calls[j].step \in SearchFallbacks \cup {"web_search"}
             => calls[j - 1].found = 0
    /\ OnlyFirstSearchPropagates

\* the place of a step in the order of the code: the LLM fabrication comes
\* first
CodeRank(step) ==
    CASE step = "search" -> 0
      [] step = "web_search" -> 1
      [] step = "cuisine_broadening" -> 2
      [] step = "without_intolerances" -> 3
      [] step = "without_cuisine" -> 4
      [] step = "relaxed_search" -> 5
      [] OTHER -> 6

\* every call before the j-th found nothing
NothingFoundBefore(j) == \A i \in 1..(j - 1) : calls[i].found = 0

\* the j-th call is made under the conditions of its step
CalledWhenDue(j) ==
    LET step == calls[j].step
    IN  /\ step = "web_search" =>
              /\ j = 2
              /\ calls[1].found < 3
              /\ request.gemini_available
        /\ step \in SearchFallbacks => NothingFoundBefore(j)
        /\ step \in CuisineFallbacks => request.cuisine # ""
        /\ step = "without_intolerances" => settings.intolerances # <<>>
        /\ step = "relaxed_search" => Len(request.ingredients) > 3

\* step has been called
Attempted(step) == \E j \in 1..Len(calls) : calls[j].step = step

\* nothing has been found by the calls made before step's turn
NothingFoundUntil(step) ==
    \A i \in 1..Len(calls) :
        CodeRank(calls[i].step) < CodeRank(step) => calls[i].found = 0

\* at the end of Step A every fallback that was due has been attempted
DueFallbacksAttempted ==
    pc = "fetched" =>
        /\ (calls[1].found < 3 /\ request.gemini_available) => Attempted("web_search")
        /\ (NothingFoundUntil("cuisine_broadening") /\ request.cuisine # "")
              => Attempted("cuisine_broadening")
        /\ (NothingFoundUntil("without_intolerances") /\ request.cuisine # ""
              /\ settings.intolerances # <<>>) => Attempted("without_intolerances")
        /\ (NothingFoundUntil("without_cuisine") /\ request.cuisine # "")
              => Attempted("without_cuisine")
        /\ (NothingFoundUntil("relaxed_search") /\ Len(request.ingredients) > 3)
              => Attempted("relaxed_search")

\* C17, amended: when the first search finds fewer than 3 recipes and there
\* is an LLM client, the LLM fabrication is attempted first and its recipes
\* are appended; after it, and only while nothing has been found, come in
\* this order (a) the cuisine broadening, (b) the search without
\* intolerances, (c) the search without cuisine - these three only for a
\* request with a cuisine, (b) only with intolerances - and (d) the search
\* with the top-3 ingredients, only with more than 3 ingredients; an
\* exception inside a fallback is not propagated.
C17_FallbacksInCodeOrder ==
    /\ \A i, j \in 1..Len(calls) :
          i < j => CodeRank(calls[i].step) < CodeRank(calls[j].step)
    /\ \A j \in 1..Len(calls) : CalledWhenDue(j)
    /\ DueFallbacksAttempted
    /\ OnlyFirstSearchPropagates

\* the end of a Step A in which the LLM fabrication and the four fallback
\* searches were all attempted, one of them raised, and the last one found
\* recipes
C17_Witness ==
    /\ pc = "fetched"
    /\ Attempted("web_search")
    /\ \A step \in SearchFallbacks : Attempted(step)
    /\ \E j \in 2..Len(calls) : calls[j].kind = "raised"
    /\ raw_recipes # <<>>

----------------------------------------------------------------------------
\* the width of the window around a title in which a marker counts
ProximityWindow == 100

\* the marker REJECTED, in any case, stands in text within ProximityWindow
\* characters of the title: the text is no longer than the window and has
\* both
MarkerNearTitle(text, title) ==
    /\ title # ""
    /\ Len(text) <= ProximityWindow
    /\ Contains(Lower(text), Lower(title))
    /\ Contains(Lower(text), "rejected")

----------------------------------------------------------------------------
\* the smaller of two numbers
Smaller(a, b) == IF a < b THEN a ELSE b

\* the penalty the failed sub-checks of a call add up to: 15 for the
\* difficulty, 2 per minute over the limit up to 30 for the time, 5 per
\* missing ingredient over the limit, 10 for the dietary preference
PenaltyOfFailedChecks(recipe, s, checks) ==
    (IF ~checks.difficulty.passed THEN 15 ELSE 0)
    + (IF ~checks.time.passed
       THEN Smaller(2 * (recipe.readyInMinutes - s.max_time_minutes), 30) ELSE 0)
    + (IF ~checks.missing_ingredients.passed
       THEN 5 * (recipe.missedIngredientCount - s.max_missing_ingredients) ELSE 0)
    + (IF ~checks.dietary.passed THEN 10 ELSE 0)

\* a recipe of 40 minutes for a user with 30 minutes
FortyUnderThirty(recipe, s) ==
    /\ recipe.hasReadyTime
    /\ recipe.readyInMinutes = 40
    /\ s.max_time_minutes = 30

\* C19: the penalty score is the sum of the penalties of the failed
\* sub-checks; a recipe of 40 minutes under a limit of 30 has a penalty of at
\* least 20, a confidence of at least 50, and the loop of process_results
\* keeps it (when the safety checks do not reject it) with that penalty and
\* confidence.
C19_PenaltyIsSumOfFailedChecks ==
    eng_out.kind = "filter" =>
        /\ eng_out.filter_result.penalty_score
             = PenaltyOfFailedChecks(eng_recipe, settings,
                                     eng_out.filter_result.filter_results)
        /\ FortyUnderThirty(eng_recipe, settings) =>
              /\ eng_out.filter_result.penalty_score >= 20
              /\ eng_out.reasoning.confidence >= 50
              /\ ~SafetyRejected(eng_recipe, settings) =>
                    LET kept == ProcessOne(eng_recipe, settings)
                    IN  /\ Len(kept) = 1
                        /\ kept[1].metadata.penalty_score >= 20
                        /\ kept[1].confidence >= 50

\* a call for a recipe of 40 minutes under a limit of 30 that fails the
\* time and the missing-ingredient checks and is kept
C19_Witness ==
    /\ eng_out.kind = "filter"
    /\ FortyUnderThirty(eng_recipe, settings)
    /\ ~eng_out.filter_result.filter_results.time.passed
    /\ ~eng_out.filter_result.filter_results.missing_ingredients.passed
    /\ eng_out.filter_result.penalty_score > 20
    /\ Len(ProcessOne(eng_recipe, settings)) = 1

----------------------------------------------------------------------------
\* the place of a tier among easy, medium, hard
TierRank(tier) ==
    CASE tier = "easy" -> 1 [] tier = "medium" -> 2 [] tier = "hard" -> 3

\* the tier one above, hard staying hard
TierAbove(tier) ==
    CASE tier = "easy" -> "medium" [] tier = "medium" -> "hard" [] tier = "hard" -> "hard"

\* the tier by the number of ingredients (used and missing together)
TierByCount(n) == IF n <= 5 THEN "easy" ELSE IF n <= 10 THEN "medium" ELSE "hard"

\* the tier of a recipe: by its ingredients, one above for more than 60
\* minutes of preparation
DerivedTier(recipe) ==
    LET tier == TierByCount(recipe.usedIngredientCount + recipe.missedIngredientCount)
    IN  IF recipe.hasReadyTime /\ recipe.readyInMinutes > 60
        THEN TierAbove(tier) ELSE tier

\* C20: the difficulty of a recipe is easy up to 5 ingredients, medium up to
\* 10, hard beyond, one tier higher when the preparation takes more than 60
\* minutes; the difficulty check fails exactly when that tier is above the
\* user's max_difficulty.
C20_DifficultyTier ==
    eng_out.kind = "difficulty" =>
        /\ eng_out.difficulty_check.level = DerivedTier(eng_recipe)
        /\ ~eng_out.difficulty_check.passed
             <=> TierRank(DerivedTier(eng_recipe)) > TierRank(settings.max_difficulty)

\* a recipe of 5 ingredients and 61 minutes for a user with max_difficulty
\* easy: medium, and the check fails
C20_Witness ==
    /\ eng_out.kind = "difficulty"
    /\ eng_recipe.usedIngredientCount + eng_recipe.missedIngredientCount = 5
    /\ eng_recipe.readyInMinutes = 61
    /\ settings.max_difficulty = "easy"
    /\ eng_out.difficulty_check.level = "medium"
    /\ ~eng_out.difficulty_check.passed

----------------------------------------------------------------------------
\* the weights of a mood as stated: the three named moods have their own,
\* any other mood those of casual
WeightsOfMood(mood) ==
    IF mood \in {"tired", "casual", "energetic"}
    THEN MOOD_WEIGHTS(mood) ELSE MOOD_WEIGHTS("casual")

\* a fraction between 0 and 1
InUnitRange(score) == score.d > 0 /\ 0 <= score.n /\ score.n <= score.d

\* the three sub-scores reported with the internal score lie in [0, 1]
SubScoresInUnitRange(debug) ==
    /\ InUnitRange(debug.time_score)
    /\ InUnitRange(debug.skill_score)
    /\ InUnitRange(debug.shopping_score)

\* twice a fraction
Twice(score) == [n |-> 2 * score.n, d |-> score.d]

\* C21 as stated: for every mood the internal score is
\* 0.4*smartScore/100 + 0.25*w.time*timeScore + 0.2*w.skill*skillScore
\* + 0.15*w.shopping*shoppingScore, with the weights of the mood (those of
\* casual for an unknown mood) and each sub-score in [0, 1].
C21_InternalScoreIsBlend ==
    eng_out.kind = "reasoning" =>
        LET debug == eng_out.internal_debug
        IN  /\ SubScoresInUnitRange(debug)
            /\ debug.internal_score
                 = Blend(eng_out.smart_score, WeightsOfMood(settings.mood),
                         debug.time_score, debug.skill_score, debug.shopping_score)

\* C21 as the code has it: the same blend, with each sub-score in [0, 1],
\* except that for the mood tired the time sub-score enters the blend
\* doubled.
C21_InternalScoreDoublesTimeWhenTired ==
    eng_out.kind = "reasoning" =>
        LET debug == eng_out.internal_debug
            time == IF settings.mood = "tired"
                    THEN Twice(debug.time_score) ELSE debug.time_score
        IN  /\ SubScoresInUnitRange(debug)
            /\ debug.internal_score
                 = Blend(eng_out.smart_score, WeightsOfMood(settings.mood),
                         time, debug.skill_score, debug.shopping_score)

\* a tired user and a recipe of 10 minutes under a limit of 30: the time
\* sub-score is 2/3 and enters the blend as 4/3
C21_Witness ==
    /\ eng_out.kind = "reasoning"
    /\ settings.mood = "tired"
    /\ eng_recipe.hasReadyTime /\ eng_recipe.readyInMinutes = 10
    /\ eng_out.internal_debug.time_score = [n |-> 200, d |-> 300]
    /\ eng_out.internal_debug.internal_score
         # Blend(eng_out.smart_score, WeightsOfMood("tired"),
                 eng_out.internal_debug.time_score,
                 eng_out.internal_debug.skill_score,
                 eng_out.internal_debug.shopping_score)

----------------------------------------------------------------------------
\* the pitch call of Step C was made in this run
PitchCallMade == pitch.state \in {"answered", "fallback", "failed"}

\* a recipe SafetyEnforce removes: a HardReject verdict or a safety score
\* below 0.5
FailsSafetyEnforce(recipe) ==
    \/ Verdict(recipe.metadata.safety_check) = "HardReject"
    \/ SafetyScoreOf(recipe.metadata.safety_check) < SafetyFloor

\* C22: the LLM pitch call happens only after SafetyEnforce and receives
\* only candidates that survived it, at most the top 3: what is sent is the
\* first three (or all, if fewer) of the list SafetyEnforce left, and no
\* sent candidate has a HardReject verdict or a safety score below 0.5.
C22_PitchOnlyForSurvivors ==
    PitchCallMade =>
        /\ pc = "done"
        /\ after_enforce = SafetyEnforce(process_results(raw_recipes, settings))
        /\ Len(pitch.sent) <= 3
        /\ Len(pitch.sent) = 3 \/ Len(pitch.sent) = Len(after_enforce)
        /\ pitch.sent = SubSeq(after_enforce, 1, Len(pitch.sent))
        /\ \A i \in 1..Len(pitch.sent) : ~FailsSafetyEnforce(pitch.sent[i])

\* a pitch call for the three survivors of four fetched recipes, one of
\* which the safety check rejected
C22_Witness ==
    /\ PitchCallMade
    /\ Len(raw_recipes) = 4
    /\ \E i \in 1..4 : ~apply_safety_check(raw_recipes[i], settings).passed
    /\ Len(after_enforce) = 3
    /\ Len(pitch.sent) = 3

----------------------------------------------------------------------------
\* a rate-limit error: the LLM call raised, and the error names 429 or
\* RESOURCE_EXHAUSTED
RateLimitError(outcome) ==
    /\ outcome.kind = "raised"
    /\ \/ Contains(Upper(outcome.text), "429")
       \/ Contains(Upper(outcome.text), "RESOURCE_EXHAUSTED")

\* an answer of the LLM that cannot be parsed
UnparsableAnswer(outcome) ==
    outcome.kind = "answered" /\ ~JsonLoads(outcome.text).ok

\* the LLM is called at most 3 times, and every wait is 10 seconds times
\* the number of the attempt it follows
AtMostThreeCallsLinearWaits ==
    /\ validator.llm_calls <= 3
    /\ validator.llm_calls = Len(validator.outcomes)
    /\ Len(validator.waits) <= 3
    /\ \A i \in 1..Len(validator.waits) : validator.waits[i] = 10 * i

\* every attempt that was followed by a wait had met a rate-limit error
WaitsOnlyAfterRateLimit ==
    \A i \in 1..Len(validator.waits) : RateLimitError(validator.outcomes[i])

\* the call has returned after a last attempt that met an error other
\* than a rate limit, an unparsable answer, or the third rate limit
EndedOnFailure ==
    /\ validator.pc = "done"
    /\ Len(validator.outcomes) > 0
    /\ LET last == validator.outcomes[Len(validator.outcomes)]
       IN  \/ last.kind = "raised" /\ ~RateLimitError(last)
           \/ UnparsableAnswer(last)
           \/ RateLimitError(last) /\ Len(validator.outcomes) = 3

\* C23: validate_and_classify_recipe calls the LLM at most 3 times; it
\* retries only after a rate-limit error (429 or RESOURCE_EXHAUSTED),
\* waiting 10, 20, 30 seconds; any other error, an unparsable answer and
\* the exhaustion of the retries give the default validation
\* (safe_for_user true); the call ends with a result and never raises.
C23_RetryOnlyOnRateLimit ==
    /\ AtMostThreeCallsLinearWaits
    /\ WaitsOnlyAfterRateLimit
    /\ \A i \in 1..Len(validator.outcomes) :
          UnparsableAnswer(validator.outcomes[i]) =>
              /\ i = Len(validator.outcomes)
              /\ validator.pc = "done"
              /\ validator.returned = DefaultValidation
    /\ EndedOnFailure => validator.returned = DefaultValidation
    /\ validator.pc = "done" => validator.returned.kind \in {"default", "parsed"}
    /\ validator.pc = "try" => validator.attempt < max_retries

----------------------------------------------------------------------------
\* the last call was get_cached_search
LastWasGet == cache.last.op = "get_cached_search"

\* the entry of the latest cache_search for the url of the last call, if
\* one was stored
HasLatest == cache.last.url \in DOMAIN cache.latest
LatestEntry == cache.latest[cache.last.url]

\* C24: get_cached_search(url) returns the response stored by the latest
\* cache_search for that url, and only when the time of the call is before
\* the expiry of that entry; for an expired entry it returns None and the
\* entry is gone from the table: an expired response is never returned.
C24_NoExpiredResponseReturned ==
    LastWasGet =>
        /\ cache.last.returned # NoneReturned =>
              /\ HasLatest
              /\ cache.last.returned = LatestEntry.response_data
              /\ cache.last.at < LatestEntry.expires_date
        /\ (HasLatest /\ cache.last.at >= LatestEntry.expires_date) =>
              /\ cache.last.returned = NoneReturned
              /\ ~cache.last.db_error =>
                    SelectByKey(cache.table, generate_cache_key(cache.last.url)) = {}
        /\ (HasLatest /\ cache.last.at < LatestEntry.expires_date
              /\ ~cache.last.db_error
              /\ SelectByKey(cache.table, generate_cache_key(cache.last.url)) # {}) =>
              cache.last.returned = LatestEntry.response_data

\* a response is asked for at the very hour its entry expires, after the
\* clock has moved: None, and the entry is deleted
C24_Witness ==
    /\ LastWasGet
    /\ ~cache.last.db_error
    /\ HasLatest
    /\ LatestEntry.response_data = [results |-> <<12, 3>>]
    /\ cache.last.at = LatestEntry.expires_date
    /\ cache.last.at > 0
    /\ cache.last.returned = NoneReturned
    /\ SelectByKey(cache.table, generate_cache_key(cache.last.url)) = {}

----------------------------------------------------------------------------
\* the five keys of violation_flags
ViolationFlagKeys ==
    { "has_time_violation", "has_missing_violation", "has_difficulty_violation",
      "has_dietary_violation", "has_nutritional_violation" }

\* the fetched recipe an output record was made from
FetchedOf(out) == CHOOSE r \in { raw_recipes[j] : j \in 1..Len(raw_recipes) } : r.id = out.id

\* the flags of an output record say which sub-checks its candidate failed
FlagsTellFailedChecks(out) ==
    LET flags == out.metadata.violation_flags
        fetched == FetchedOf(out)
    IN  /\ DOMAIN flags = ViolationFlagKeys
        /\ \A k \in ViolationFlagKeys : flags[k] \in BOOLEAN
        /\ flags.has_time_violation
             <=> ~check_time_limit(fetched, settings.max_time_minutes).passed
        /\ flags.has_missing_violation
             <=> ~check_missing_limit(fetched.missedIngredientCount,
                                      settings.max_missing_ingredients).passed
        /\ flags.has_difficulty_violation
             <=> ~assess_difficulty(fetched, settings.max_difficulty).passed
        /\ flags.has_dietary_violation
             <=> ~check_dietary_requirements(fetched, settings.dietary_requirements).passed
        /\ flags.has_time_violation <=> ~out.metadata.filter_results.time.passed
        /\ flags.has_missing_violation
             <=> ~out.metadata.filter_results.missing_ingredients.passed
        /\ flags.has_difficulty_violation
             <=> ~out.metadata.filter_results.difficulty.passed
        /\ flags.has_dietary_violation <=> ~out.metadata.filter_results.dietary.passed
        /\ ~flags.has_nutritional_violation

\* C25: in every output record, _metadata.violation_flags has the five
\* boolean keys; has_time_violation, has_missing_violation,
\* has_difficulty_violation and has_dietary_violation are true exactly when
\* the time, missing-ingredient, difficulty and dietary sub-check failed
\* for that candidate, and has_nutritional_violation is false.
C25_ViolationFlags ==
    /\ pc \in {"enforce", "enrich", "done"} =>
          \A i \in 1..Len(processed_recipes) : FlagsTellFailedChecks(processed_recipes[i])
    /\ pc = "done" =>
          \A i \in 1..Len(result.recipes) : FlagsTellFailedChecks(result.recipes[i])

\* a return with a record that failed the time, missing-ingredient and
\* difficulty checks, and one that failed only the dietary check
C25_Witness ==
    /\ pc = "done"
    /\ \E i \in 1..Len(result.recipes) :
          LET flags == result.recipes[i].metadata.violation_flags
          IN  /\ flags.has_time_violation
              /\ flags.has_missing_violation
              /\ flags.has_difficulty_violation
    /\ \E i \in 1..Len(result.recipes) :
          LET flags == result.recipes[i].metadata.violation_flags
          IN  /\ flags.has_dietary_violation
              /\ ~flags.has_missing_violation
              /\ ~flags.has_difficulty_violation

----------------------------------------------------------------------------
\* the return paths of run_pantry_chef, by the error the metadata carries
ReturnPaths ==
    { <<>>, <<"No ingredients provided">>, <<"API Error">>,
      <<"No recipes found from API">>, <<"Processing Error">> }

\* C26: on every return path of run_pantry_chef (empty input, fetch error,
\* no results, processing error, normal return), metadata.total_processed
\* is the number of recipes in the returned list and is at most
\* metadata.total_fetched.
C26_ProcessedCountsReturned ==
    pc = "done" =>
        /\ result.metadata.errors \in ReturnPaths
        /\ result.metadata.total_processed = Len(result.recipes)
        /\ result.metadata.total_processed <= result.metadata.total_fetched

\* a normal return of fewer recipes than were fetched, one of them removed
\* by the rejection pass
C26_Witness ==
    /\ pc = "done"
    /\ result.metadata.errors = <<>>
    /\ Len(result.recipes) > 0
    /\ Len(result.recipes) < Len(after_enforce)
    /\ Len(after_enforce) < result.metadata.total_fetched
    /\ result.metadata.total_processed = Len(result.recipes)

----------------------------------------------------------------------------
\* the safety verdict of the call's recipe for the call's settings with
\* the intolerance list in another order
VerdictForOrder(intolerances) ==
    Verdict(apply_safety_check(eng_recipe, [settings EXCEPT !.intolerances = intolerances]))

\* C27: with several intolerances, a candidate with a keyword hit and no
\* safe-word for any one of them is HardReject, even when another
\* intolerance has a hit together with a safe-word; the verdict is the same
\* for the intolerance list in any order.
C27_VerdictIgnoresIntoleranceOrder ==
    (eng_out.kind = "safety" /\ Len(settings.intolerances) > 1) =>
        /\ UnqualifiedHit(recipe_text(eng_recipe), settings.intolerances)
              => Verdict(eng_out.safety_check) = "HardReject"
        /\ Verdict(eng_out.safety_check) = VerdictForOrder(Reverse(settings.intolerances))

----------------------------------------------------------------------------
\* the manifest has a dairy or egg keyword and no safe-alternative keyword
\* anywhere
DairyEggWithoutAlternative(recipe) ==
    /\ ManifestHas(recipe, DAIRY_EGGS)
    /\ ~ManifestHas(recipe, SAFE_WORDS("dairy") \o SAFE_WORDS("eggs"))

\* C28: whenever 'vegan' is among the dietary requirements, whatever else
\* is listed with it (for example 'vegetarian'), a manifest with a dairy or
\* egg keyword and no safe-alternative keyword is HardReject.
C28_VeganAmongOthersRejectsDairyEgg ==
    (/\ eng_out.kind = "safety"
     /\ IsVegan(settings)
     /\ DairyEggWithoutAlternative(eng_recipe)) =>
        Verdict(eng_out.safety_check) = "HardReject"

----------------------------------------------------------------------------
(* C29 *)

\* the run made the Step C call and went through the rejection pass
RejectionPassRan ==
    /\ pc = "done"
    /\ pitch.state \in {"answered", "fallback"}
    /\ pitch.text # ""

\* the ids of a list of recipes
IdsOf(recipes) == {recipes[k].id : k \in 1..Len(recipes)}

\* the candidates of the list handed to Step C that the returned list lacks
RemovedByPass ==
    {k \in 1..Len(after_enforce) : after_enforce[k].id \notin IdsOf(result.recipes)}

\* the pitch carries the rejection marker
HasRejectionMarker == Contains(Lower(pitch.text), "rejected")

\* C29: the rejection pass of Step C removes only candidates that were sent
\* to the LLM: every candidate ranked 4th or lower after SafetyEnforce is
\* still in the returned list, and a pitch without the rejection marker
\* leaves the list as SafetyEnforce left it.
C29_RejectionPassRemovesOnlySent ==
    RejectionPassRan =>
        /\ \A k \in RemovedByPass : k <= 3
        /\ ~HasRejectionMarker => result.recipes = after_enforce

----------------------------------------------------------------------------
(* C30 *)

\* app.invoke has returned: the graph is at END
AtEnd == graph.pc = "END"

\* app.invoke has raised the exception of a collaborator call
CollaboratorRaised == graph.pc = "raised"

GraphCountersBounded ==
    /\ graph.generate_runs <= MaxLoopSteps
    /\ graph.rewrite_increments <= MaxRewrites

\* C30: every run of the graph in which the router, the retriever and the
\* graders return (whatever they return; a run ends otherwise only with the
\* exception of a collaborator call) reaches END, the generate node runs at
\* most 5 times and rewrite_query increments rewrite_count at most 2 times.
C30_GraphReachesEnd ==
    /\ []GraphCountersBounded
    /\ <>(AtEnd \/ CollaboratorRaised)

\* the longest run: two rewrites, five generations, and END after the
\* nineteenth node
C30_Witness ==
    /\ AtEnd
    /\ graph.generate_runs = MaxLoopSteps
    /\ graph.rewrite_increments = MaxRewrites
    /\ graph.step = 19

====
